---- MODULE Spec2Model ----
(***************************************************************************)
(* Lesson acquisition and delivery pipeline of the UI/UX lesson bot:       *)
(*   - generate_lesson_content (app/api/openai_client.py): cache, retry,   *)
(*     strict JSON parse, regex extraction, canned fallback;               *)
(*   - get_image_for_lesson (app/api/unsplash_client.py): image chain;     *)
(*   - on_poll_answer (app/bot/handlers.py): quiz session tracker;         *)
(*   - send_scheduled_lesson (app/bot/scheduler.py, app/bot/bot.py) and    *)
(*     the delivery part of send_lesson (app/bot/handlers.py).             *)
(* Each component has its own specification over the shared variables.     *)
(***************************************************************************)
EXTENDS Integers, Sequences, FiniteSets, TLC

VARIABLES
    \* ---- content acquisition engine (openai_client.py)
    lesson_cache,     \* _lesson_cache: key -> [has, ts, lesson]
    disable_openai,   \* settings.DISABLE_OPENAI
    now,              \* time.time()
    ticks,            \* number of clock steps taken (bounded)
    pc,               \* per call: "idle" | "api" | "sleep" | "done" (returned) | "raised"
    ptheme,           \* per call: the theme argument
    retry_count,      \* per call: the local retry_count
    presult,          \* per call: the returned lesson
    pgens,            \* per call: chat-completion calls issued by this call
    ppath,            \* per call: path that produced the result
    pseen,            \* per call: what kind of response the last attempt received
    pstart,           \* per call: time at which the call was made
    calls,            \* number of calls made so far (bounded)
    log,              \* completed calls, in completion order
    \* ---- image chain (unsplash_client.py)
    img,
    \* ---- quiz session tracker (handlers.py)
    quiz,
    \* ---- scheduler batch (scheduler.py, bot.py, handlers.send_lesson)
    sched,
    \* ---- delivery of one lesson (handlers.send_lesson)
    dlv,
    \* ---- per-recipient state (persistence.py, database.py, handlers.py)
    usr

acqVars == <<lesson_cache, disable_openai, now, ticks, pc, ptheme, retry_count,
             presult, pgens, ppath, pseen, pstart, calls, log>>
\* the variables the acquisition engine never touches
deliveryVars == <<img, quiz, sched, dlv, usr>>
vars == <<lesson_cache, disable_openai, now, ticks, pc, ptheme, retry_count,
          presult, pgens, ppath, pseen, pstart, calls, log, img, quiz, sched, dlv, usr>>

(***************************************************************************)
(* Bounds of the model.                                                    *)
(***************************************************************************)
MaxOpts == 3       \* longest quiz_options / option_explanations list a response carries
MaxCalls == 2      \* calls of generate_lesson_content in one behaviour
MaxTicks == 2      \* clock steps in one behaviour
MaxImgCalls == 2   \* calls of get_image_for_lesson in one behaviour
MaxPolls == 2      \* quiz polls sent in one behaviour
MaxAnswers == 3    \* poll answer events dispatched in one behaviour
MaxUsers == 3      \* users who may subscribe
MaxParas == 2      \* paragraphs (bullet points) of a lesson body
NumThemes == 3     \* subjects of the catalog (138 in settings.py)
MaxUpdates == 12   \* history updates in one behaviour
MaxIrregular == 2  \* of which re-used themes, empty summaries, second recipient
MaxSends == 4      \* send_lesson calls in one behaviour of SpecRecipient
MaxRequests == 3   \* /nextlesson requests in one behaviour
MaxWakes == 3      \* wake-ups of the job scheduler in one behaviour
MaxPoints == 2     \* points of a lesson body, and characters of a point
MaxCore == 4       \* characters of a quiz text besides its run of letters

(***************************************************************************)
(* JSON values. Every value has the same record shape; t is the Python     *)
(* type: "absent" (key not in the dict), "null", "int", "str", "list",     *)
(* and two kinds of str whose text starts with '[' and ends with ']':      *)
(* "arrstr" (ast.literal_eval gives the list xs) and "badarr"              *)
(* (ast.literal_eval raises).                                              *)
(***************************************************************************)
VAbsent == [t |-> "absent", s |-> "", n |-> 0, xs |-> <<>>]
VNull == [t |-> "null", s |-> "", n |-> 0, xs |-> <<>>]
VInt(k) == [t |-> "int", s |-> "", n |-> k, xs |-> <<>>]
VStr(str) == [t |-> "str", s |-> str, n |-> 0, xs |-> <<>>]
VList(seq) == [t |-> "list", s |-> "", n |-> 0, xs |-> seq]
VArrStr(seq) == [t |-> "arrstr", s |-> "[..]", n |-> 0, xs |-> seq]
VBadArr == [t |-> "badarr", s |-> "[..", n |-> 0, xs |-> <<>>]

IsStr(v) == v.t \in {"str", "arrstr", "badarr"}
LooksLikeArray(v) == v.t \in {"arrstr", "badarr"}

FieldNames == {"title", "content", "quiz_question", "quiz_options",
               "correct_option_index", "explanation", "option_explanations"}
RequiredFields == <<"title", "content", "quiz_question", "quiz_options",
                    "correct_option_index", "explanation">>

NoLesson == [f \in FieldNames |-> VAbsent]

(***************************************************************************)
(* Subjects. theme.lower().strip() and theme.title() are tabulated for the *)
(* subjects of the model; two of them share a cache key.                   *)
(***************************************************************************)
Themes == {"Color Theory", "color theory ", "Typography"}

ThemeLower(theme) ==
    CASE theme = "Color Theory" -> "color theory"
      [] theme = "color theory " -> "color theory"
      [] theme = "Typography" -> "typography"

ThemeTitle(theme) ==
    CASE theme = "Color Theory" -> "Color Theory"
      [] theme = "color theory " -> "Color Theory "
      [] theme = "Typography" -> "Typography"

Keys == {ThemeLower(th) : th \in Themes}

(***************************************************************************)
(* A generator response. api = "error" stands for the chat-completion call *)
(* raising (timeout, transport error) or returning no text. Otherwise the  *)
(* text is described by what the two parsers see in it:                    *)
(*   json    "object": json.loads gives a dict; "array": a list;           *)
(*           "scalar": a number; "invalid": json.loads raises (truncated   *)
(*           text, prose around the object);                               *)
(*   fields  the value written after each key in the text; content2 is a   *)
(*           second "content" key written after the first one.             *)
(***************************************************************************)
Doc(js, ti, co, co2, qq, qo, ci, ex, oe) ==
    [api |-> "ok", json |-> js, title |-> ti, content |-> co, content2 |-> co2,
     quiz_question |-> qq, quiz_options |-> qo, correct_option_index |-> ci,
     explanation |-> ex, option_explanations |-> oe]

ApiError == [Doc("invalid", VAbsent, VAbsent, VAbsent, VAbsent, VAbsent, VAbsent,
                 VAbsent, VAbsent) EXCEPT !.api = "error"]
ArrayDoc == Doc("array", VAbsent, VAbsent, VAbsent, VAbsent, VAbsent, VAbsent,
                VAbsent, VAbsent)
ScalarDoc == Doc("scalar", VAbsent, VAbsent, VAbsent, VAbsent, VAbsent, VAbsent,
                 VAbsent, VAbsent)

\* json.loads keeps the last value of a duplicated key
JsonGet(d, f) ==
    IF f = "content" /\ d.content2.t # "absent" THEN d.content2 ELSE d[f]

\* int(x) of lines 159-160 and 430, for the numerals of the model
IsNumeral(str) == str \in {"0", "1", "2", "3"}
ParseInt(str) ==
    CASE str = "0" -> 0 [] str = "1" -> 1 [] str = "2" -> 2 [] str = "3" -> 3

CoerceIndex(v) ==
    IF v.t = "int" THEN [exc |-> "none", n |-> v.n]
    ELSE IF v.t = "str" /\ IsNumeral(v.s) THEN [exc |-> "none", n |-> ParseInt(v.s)]
    ELSE IF IsStr(v) THEN [exc |-> "ValueError", n |-> 0]
    ELSE [exc |-> "TypeError", n |-> 0]

Filler(theme) == "This isn't the best answer for " \o theme \o "."

\* the mutant of SynthExplanations: the explanation is placed nowhere
SynthAllFiller(theme, num, ci, explText) == [i \in 1..num |-> Filler(theme)]

\* lines 165-178 (and 238-244): explanation at the correct index, filler elsewhere
SynthExplanations(theme, num, ci, explText) ==
    [i \in 1..num |-> IF i - 1 = ci THEN explText ELSE Filler(theme)]

\* lines 184-191 (and 258-265): a string that looks like an array is re-parsed
ReparseContent(v) ==
    IF v.t = "arrstr" THEN VList(v.xs) ELSE v

\* lines 145-156: json.loads, required fields, quiz_options is a list
StrictValidate(d) ==
    IF d.json = "invalid" THEN "JSONDecodeError"
    ELSE IF d.json = "scalar" THEN "TypeError"
    ELSE IF d.json = "array" THEN "ValueError"
    ELSE IF \E i \in 1..Len(RequiredFields) :
                JsonGet(d, RequiredFields[i]).t = "absent" THEN "ValueError"
    ELSE IF d.quiz_options.t # "list" THEN "ValueError"
    ELSE "none"

\* lines 143-197: the strict JSON path
StrictParse(theme, d) ==
    LET v == StrictValidate(d)
        idx == CoerceIndex(d.correct_option_index)
        num == Len(d.quiz_options.xs)
        oe == IF d.option_explanations.t = "absent"
              THEN VList(SynthExplanations(theme, num, idx.n, d.explanation.s))
              ELSE d.option_explanations
    IN  IF v # "none" THEN [exc |-> v, lesson |-> NoLesson]
        ELSE IF idx.exc # "none" THEN [exc |-> idx.exc, lesson |-> NoLesson]
        ELSE [exc |-> "none",
              lesson |-> [title |-> d.title,
                          content |-> ReparseContent(JsonGet(d, "content")),
                          quiz_question |-> d.quiz_question,
                          quiz_options |-> d.quiz_options,
                          correct_option_index |-> VInt(idx.n),
                          explanation |-> d.explanation,
                          option_explanations |-> oe]]

\* re.search(r'"key":\s*"([^"]+)"'): the first non-empty string written after the key
RxString(v, default) == IF IsStr(v) /\ v.s # "" THEN v ELSE VStr(default)

PlaceholderOptions == <<"Option A", "Option B", "Option C", "Option D">>

\* lines 214-220
RxOptions(d) ==
    LET found == IF d.quiz_options.t = "list" THEN d.quiz_options.xs ELSE <<>>
    IN  IF Len(found) < 2 THEN PlaceholderOptions ELSE found

\* lines 222-225
RxIndex(d, options) ==
    LET m == IF d.correct_option_index.t = "int" /\ d.correct_option_index.n >= 0
             THEN d.correct_option_index.n ELSE 0
    IN  IF m >= Len(options) THEN 0 ELSE m

\* lines 202-271: field-by-field regex extraction on the raw text
RegexExtract(theme, d) ==
    LET title == RxString(d.title, "Guide to " \o theme)
        first == IF IsStr(d.content) /\ d.content.s # "" THEN d.content ELSE d.content2
        body == RxString(first, "Learn about " \o theme \o " in UI/UX design.")
        question == RxString(d.quiz_question, "What's important about " \o theme \o "?")
        options == RxOptions(d)
        ci == RxIndex(d, options)
        expl == RxString(d.explanation, "This is the right answer for " \o theme \o ".")
        found == IF d.option_explanations.t = "list" THEN d.option_explanations.xs
                 ELSE <<>>
        oe == IF Len(found) < Len(options)
              THEN SynthExplanations(theme, Len(options), ci, expl.s)
              ELSE found
    IN  [exc |-> "none",
         lesson |-> [title |-> title,
                     content |-> ReparseContent(body),
                     quiz_question |-> question,
                     quiz_options |-> VList(options),
                     correct_option_index |-> VInt(ci),
                     explanation |-> expl,
                     option_explanations |-> VList(oe)]]

\* lines 299-330
get_fallback_lesson(theme) ==
    LET tt == ThemeTitle(theme)
        goal == "Making it easy for people to use is the main goal of " \o theme \o "."
    IN  [title |-> VStr("Quick Tips for " \o tt),
         content |-> VList(<<"Understanding " \o tt, "Think of " \o tt, "Focus on users",
                             "Keep it simple", "Watch real people", "Start with sketches",
                             "Test and improve">>),
         quiz_question |-> VStr("What's the most important goal when designing with "
                                \o theme \o " in mind?"),
         quiz_options |-> VList(<<"Making it look impressive with lots of features",
                                  "Making it easy for people to use",
                                  "Using the latest design trends",
                                  "Using as many colors as possible">>),
         correct_option_index |-> VInt(1),
         explanation |-> VStr(goal),
         option_explanations |-> VList(<<"While aesthetics matter: " \o theme,
                                         "Correct! " \o goal,
                                         "Following trends: " \o theme,
                                         "Using many colors: " \o theme>>)]

\* the mutant of OuterCatches: the outer handler catches only API errors
OuterCatchesApiOnly(exc) == exc = "APIError"

\* line 276: except Exception
OuterCatches(exc) == TRUE

\* line 199: except (json.JSONDecodeError, ValueError)
InnerCatches(exc) == exc \in {"JSONDecodeError", "ValueError"}

\* lines 81-277: one iteration of the retry loop, from the response on
Attempt(theme, r) ==
    LET s == StrictParse(theme, r)
        x == RegexExtract(theme, r)
        escaped == IF r.api = "error" THEN "APIError" ELSE s.exc
    IN  IF r.api = "ok" /\ s.exc = "none"
        THEN [kind |-> "return", lesson |-> s.lesson, path |-> "strict"]
        ELSE IF r.api = "ok" /\ InnerCatches(s.exc)
        THEN [kind |-> "return", lesson |-> x.lesson, path |-> "regex"]
        ELSE IF OuterCatches(escaped)
        THEN [kind |-> "retry", lesson |-> NoLesson, path |-> "-"]
        ELSE [kind |-> "raise", lesson |-> NoLesson, path |-> "-"]

(***************************************************************************)
(* generate_lesson_content as a process. The code between two awaits runs  *)
(* atomically on the event loop:                                           *)
(*   Call       entry .. the first chat-completion await (lines 62-106)    *)
(*   ApiReturn  the awaited response .. return or asyncio.sleep (106-291)  *)
(*   Wake       end of the sleep .. the next chat-completion await         *)
(* A call that returns is recorded in log with the time of its return.     *)
(***************************************************************************)
Procs == {1, 2}

\* valid JSON carrying the six required fields
WellFormed(d) ==
    /\ d.api = "ok"
    /\ d.json = "object"
    /\ \A i \in 1..Len(RequiredFields) : JsonGet(d, RequiredFields[i]).t # "absent"

\* truncated JSON, a duplicated "content" key, or an array-as-string body
Malformed(d) ==
    /\ d.api = "ok"
    /\ \/ d.json = "invalid"
       \/ d.content2.t # "absent"
       \/ LooksLikeArray(JsonGet(d, "content"))

\* the response text holds no "option_explanations" key
NoOptionExplanations(d) == d.api = "ok" /\ d.option_explanations.t = "absent"

\* the texts of the "content" keys of a response that json.loads rejects and
\* that writes the key twice; <<>> for every other response
ContentOccurrences(d) ==
    IF d.api = "ok" /\ d.json = "invalid" /\ d.content.t = "str" /\ d.content2.t = "str"
    THEN <<d.content.s, d.content2.s>>
    ELSE <<>>

NoneSeen == [wf |-> FALSE, mal |-> FALSE, noexpl |-> FALSE, occurrences |-> <<>>]
Seen(d) == [wf |-> WellFormed(d), mal |-> Malformed(d), noexpl |-> NoOptionExplanations(d),
            occurrences |-> ContentOccurrences(d)]

CacheTTL == 3600 * 24
MaxRetries == 2

NoEntry == [has |-> FALSE, ts |-> 0, lesson |-> NoLesson]

\* the mutant of CacheFresh: an entry exactly _cache_ttl old is still served
CacheFreshInclusive(e, t) == e.has /\ t - e.ts <= CacheTTL

\* the mutant of CacheFresh: the stored entry is never considered fresh
CacheFreshNever(e, t) == FALSE

\* lines 66-68: theme_lower in _lesson_cache and time.time() - timestamp < _cache_ttl
CacheFresh(e, t) == e.has /\ t - e.ts < CacheTTL

\* the mutant of CacheStore: nothing is written to the cache
CacheStoreNothing(cache, theme, t, lesson) == cache

\* lines 194, 268, 287: _lesson_cache[theme_lower] = (time.time(), lesson)
CacheStore(cache, theme, t, lesson) ==
    [cache EXCEPT ![ThemeLower(theme)] = [has |-> TRUE, ts |-> t, lesson |-> lesson]]

\* the mutant of GenerationDisabled: the setting is ignored
GenerationDisabledNever(flag) == FALSE

\* line 73: if settings.DISABLE_OPENAI
GenerationDisabled(flag) == flag

\* the mutant of NextRetryCount: a failed attempt is not counted
NextRetryCountStuck(rc) == rc

\* line 280: retry_count += 1
NextRetryCount(rc) == rc + 1

\* the call returns `lesson`; the completed call is recorded
Complete(p, theme, start, lesson, path, gens) ==
    /\ presult' = [presult EXCEPT ![p] = lesson]
    /\ ppath' = [ppath EXCEPT ![p] = path]
    /\ pc' = [pc EXCEPT ![p] = "done"]
    /\ log' = Append(log, [theme |-> theme, start |-> start, end |-> now,
                           gens |-> gens, path |-> path, lesson |-> lesson])

Call(p, theme) ==
    /\ pc[p] \in {"idle", "done"}
    /\ ptheme' = [ptheme EXCEPT ![p] = theme]
    /\ pstart' = [pstart EXCEPT ![p] = now]
    /\ retry_count' = [retry_count EXCEPT ![p] = 0]
    /\ calls' = calls + 1
    /\ pseen' = [pseen EXCEPT ![p] = NoneSeen]
    /\ IF CacheFresh(lesson_cache[ThemeLower(theme)], now)
       THEN /\ Complete(p, theme, now, lesson_cache[ThemeLower(theme)].lesson, "cache", 0)
            /\ pgens' = [pgens EXCEPT ![p] = 0]
       ELSE IF GenerationDisabled(disable_openai)
       THEN /\ Complete(p, theme, now, get_fallback_lesson(theme), "disabled", 0)
            /\ pgens' = [pgens EXCEPT ![p] = 0]
       ELSE /\ presult' = [presult EXCEPT ![p] = NoLesson]
            /\ ppath' = [ppath EXCEPT ![p] = "-"]
            /\ pgens' = [pgens EXCEPT ![p] = 1]
            /\ pc' = [pc EXCEPT ![p] = "api"]
            /\ UNCHANGED log
    /\ UNCHANGED <<lesson_cache, disable_openai, now, ticks, deliveryVars>>

ApiReturn(p, r) ==
    /\ pc[p] = "api"
    /\ pseen' = [pseen EXCEPT ![p] = Seen(r)]
    /\ LET a == Attempt(ptheme[p], r)
           fb == get_fallback_lesson(ptheme[p])
       IN  CASE a.kind = "return" ->
                 /\ lesson_cache' = CacheStore(lesson_cache, ptheme[p], now, a.lesson)
                 /\ Complete(p, ptheme[p], pstart[p], a.lesson, a.path, pgens[p])
                 /\ UNCHANGED retry_count
            [] a.kind = "retry" /\ NextRetryCount(retry_count[p]) >= MaxRetries ->
                 /\ lesson_cache' = CacheStore(lesson_cache, ptheme[p], now, fb)
                 /\ Complete(p, ptheme[p], pstart[p], fb, "fallback", pgens[p])
                 /\ retry_count' = [retry_count EXCEPT ![p] = NextRetryCount(@)]
            [] a.kind = "retry" /\ NextRetryCount(retry_count[p]) < MaxRetries ->
                 /\ retry_count' = [retry_count EXCEPT ![p] = NextRetryCount(@)]
                 /\ pc' = [pc EXCEPT ![p] = "sleep"]
                 /\ UNCHANGED <<lesson_cache, presult, ppath, log>>
            [] a.kind = "raise" ->
                 /\ pc' = [pc EXCEPT ![p] = "raised"]
                 /\ UNCHANGED <<lesson_cache, presult, ppath, retry_count, log>>
    /\ UNCHANGED <<disable_openai, now, ticks, ptheme, pgens, pstart, calls, deliveryVars>>

\* lines 291, 80-106 (and 293-296 when the loop condition fails)
Wake(p) ==
    /\ pc[p] = "sleep"
    /\ IF retry_count[p] < MaxRetries
       THEN /\ pgens' = [pgens EXCEPT ![p] = @ + 1]
            /\ pc' = [pc EXCEPT ![p] = "api"]
            /\ UNCHANGED <<lesson_cache, presult, ppath, log>>
       ELSE /\ lesson_cache' = CacheStore(lesson_cache, ptheme[p], now,
                                          get_fallback_lesson(ptheme[p]))
            /\ Complete(p, ptheme[p], pstart[p], get_fallback_lesson(ptheme[p]), "fallback",
                        pgens[p])
            /\ UNCHANGED pgens
    /\ UNCHANGED <<disable_openai, now, ticks, ptheme, retry_count, pseen, pstart, calls,
                   deliveryVars>>

\* the clock advances (one second, or one second short of the TTL) between
\* calls and while a chat-completion call is awaited; the 0.5 s sleep between
\* attempts is shorter than the clock's unit
Tick(dt) ==
    /\ ticks < MaxTicks
    /\ \A p \in Procs : pc[p] # "sleep"
    /\ now' = now + dt
    /\ ticks' = ticks + 1
    /\ UNCHANGED <<lesson_cache, disable_openai, pc, ptheme, retry_count, presult, pgens,
                   ppath, pseen, pstart, calls, log, deliveryVars>>

TickSteps == {1, CacheTTL - 1}


AcqInit ==
    /\ lesson_cache = [k \in Keys |-> NoEntry]
    /\ disable_openai \in BOOLEAN
    /\ now = 0
    /\ ticks = 0
    /\ pc = [p \in Procs |-> "idle"]
    /\ ptheme = [p \in Procs |-> "Typography"]
    /\ retry_count = [p \in Procs |-> 0]
    /\ presult = [p \in Procs |-> NoLesson]
    /\ pgens = [p \in Procs |-> 0]
    /\ ppath = [p \in Procs |-> "-"]
    /\ pseen = [p \in Procs |-> NoneSeen]
    /\ pstart = [p \in Procs |-> 0]
    /\ calls = 0
    /\ log = <<>>

(***************************************************************************)
(* The field check at the start of send_lesson (handlers.py 383-432),      *)
(* applied to the dict generate_lesson_content returned. The dict is the   *)
(* object stored in _lesson_cache (openai_client.py 194-197, 268, 287), so *)
(* an assignment to one of its keys is seen through the cache as well.     *)
(***************************************************************************)
\* lines 384-391: required_fields
ExpectedType(field) ==
    CASE field \in {"title", "quiz_question", "explanation"} -> "str"
      [] field = "content" -> "str|list"
      [] field = "quiz_options" -> "list"
      [] field = "correct_option_index" -> "int"

\* isinstance(value, expected_type)
HasType(v, expected) ==
    CASE expected = "str" -> IsStr(v)
      [] expected = "str|list" -> IsStr(v) \/ v.t = "list"
      [] expected = "list" -> v.t = "list"
      [] expected = "int" -> v.t = "int"

\* str(value) of None, a number, a list
PyStr(v) ==
    CASE v.t = "null" -> VStr("None")
      [] v.t = "int" -> VStr(ToString(v.n))
      [] v.t = "list" -> VArrStr(v.xs)
      [] OTHER -> v

\* lines 393-432 for one field
CoerceField(field, v) ==
    LET expected == ExpectedType(field)
    IN  IF v.t = "absent"
        THEN CASE expected \in {"str", "str|list"} -> VStr("")
               [] expected = "list" -> VList(<<>>)
               [] expected = "int" -> VInt(0)
        ELSE IF HasType(v, expected) THEN v
        ELSE IF expected \in {"str", "str|list"} THEN PyStr(v)
        ELSE IF expected = "list"
        THEN CASE v.t = "arrstr" -> VList(v.xs)
               [] v.t = "badarr" -> VList(PlaceholderOptions)
               [] v.t = "str" -> VList(<<v.s>>)
               [] OTHER -> v
        ELSE LET idx == CoerceIndex(v)
             IN  IF idx.exc = "none" THEN VInt(idx.n) ELSE VInt(0)

\* lines 393-432: the dict after the loop over required_fields
CheckedFields(lesson) ==
    [f \in FieldNames |->
        IF f = "option_explanations" THEN lesson[f] ELSE CoerceField(f, lesson[f])]

\* send_lesson from the return of generate_lesson_content (368) to line 432:
\* the assignments go to the returned dict, which is the cached object
\* unless the canned lesson was returned because generation is disabled
ValidateLesson(p) ==
    /\ pc[p] = "done"
    /\ dlv.validated < calls
    /\ dlv' = [dlv EXCEPT !.validated = calls]
    /\ presult' = [presult EXCEPT ![p] = CheckedFields(presult[p])]
    /\ lesson_cache' =
           IF ppath[p] # "disabled" /\ lesson_cache[ThemeLower(ptheme[p])].has
           THEN [lesson_cache EXCEPT ![ThemeLower(ptheme[p])].lesson =
                                         CheckedFields(presult[p])]
           ELSE lesson_cache
    /\ UNCHANGED <<disable_openai, now, ticks, pc, ptheme, retry_count, pgens, ppath,
                   pseen, pstart, calls, log, img, quiz, sched, usr>>

(***************************************************************************)
(* Image chain: get_image_for_lesson (unsplash_client.py 20-56) and        *)
(* get_local_fallback_image (59-76).                                       *)
(*   img.key      settings.UNSPLASH_API_KEY is set                         *)
(*   img.dir      the fallback directory: does listdir work, its files     *)
(*   img.pc       "idle" | "unsplash" (awaiting session.get) | "done" |    *)
(*                "raised" (the call ended with an exception)              *)
(*   img.invoked  strategies invoked by the current call, in order         *)
(*   img.yields   what each invoked strategy yielded (an image or None)    *)
(*   img.result   the value returned by the current call                   *)
(*   img.ncalls   calls made so far                                        *)
(*   img.done     completed calls: [invoked, yields, result, dir], dir the *)
(*                fallback directory as it was during the call             *)
(***************************************************************************)
NoImage == [kind |-> "none", ref |-> "", attribution |-> ""]
UrlImage(url, photographer) ==
    [kind |-> "url", ref |-> url, attribution |-> "Photo by " \o photographer \o " on Unsplash"]
FileImage(f) == [kind |-> "file", ref |-> f.stem \o f.ext, attribution |-> "Local image"]

\* outcomes of the Unsplash search request (lines 42-53)
UnsplashOutcomes == {"exception", "status403", "noresults", "badshape", "ok"}

\* lines 44-53: the image the Unsplash strategy yields
UnsplashImage(o) == IF o = "ok" THEN UrlImage("https://u/1", "P") ELSE NoImage

DirFiles == {[stem |-> "a", ext |-> ".jpg"], [stem |-> "B", ext |-> ".PNG"],
             [stem |-> "README", ext |-> ".txt"]}

\* f.lower().endswith(valid_extensions), lines 62-64
LowerExt(ext) == IF ext = ".PNG" THEN ".png" ELSE ext
valid_extensions == {".jpg", ".jpeg", ".png", ".gif"}
fallback_images(dir) == {f \in dir.files : LowerExt(f.ext) \in valid_extensions}

\* the mutant of get_local_fallback_image: the strategy never finds an image
LocalFallbackNever(dir) == {NoImage}

\* lines 59-76: the images get_local_fallback_image may return (random.choice
\* over the listing; None when the listing is empty or listdir raises)
get_local_fallback_image(dir) ==
    IF ~dir.listable THEN {NoImage}
    ELSE IF fallback_images(dir) = {} THEN {NoImage}
    ELSE {FileImage(f) : f \in fallback_images(dir)}

\* the mutant of ShortCircuit: a found Unsplash image does not end the call
ShortCircuitNever(image) == FALSE

\* line 51: return as soon as the Unsplash strategy yields an image
ShortCircuit(image) == image # NoImage

\* the Unsplash outcomes that are exceptions inside the try block of lines
\* 23-53: the request raises, or the JSON lacks results[0]["urls"]["regular"]
UnsplashRaises(o) == o \in {"exception", "badshape"}

\* the mutant of UnsplashCatches: the strategy lets its exceptions through
UnsplashCatchesNothing(o) == FALSE

\* line 52: except Exception
UnsplashCatches(o) == TRUE

ImgFinish(invoked, yields, result) ==
    img' = [img EXCEPT !.pc = "done", !.invoked = invoked, !.yields = yields,
                       !.result = result,
                       !.done = Append(@, [invoked |-> invoked, yields |-> yields,
                                           result |-> result, dir |-> img.dir])]

\* lines 55-56 after the strategies in `invoked` yielded `yields`
ImgLocal(invoked, yields) ==
    \E image \in get_local_fallback_image(img.dir) :
        ImgFinish(Append(invoked, "local"), Append(yields, image), image)

\* lines 20-43 (to the await of session.get), or 20-23 and 55-56 without a key
ImgCall ==
    /\ img.pc \in {"idle", "done"}
    /\ img.ncalls < MaxImgCalls
    /\ IF img.key
       THEN img' = [img EXCEPT !.pc = "unsplash", !.invoked = <<"unsplash">>,
                               !.yields = <<>>, !.result = NoImage, !.ncalls = @ + 1]
       ELSE \E image \in get_local_fallback_image(img.dir) :
                img' = [img EXCEPT !.pc = "done", !.invoked = <<"local">>,
                                   !.yields = <<image>>, !.result = image,
                                   !.ncalls = @ + 1,
                                   !.done = Append(@, [invoked |-> <<"local">>,
                                                       yields |-> <<image>>,
                                                       result |-> image,
                                                       dir |-> img.dir])]
    /\ UNCHANGED <<acqVars, usr, quiz, sched, dlv>>

\* lines 43-56: the search request ends
UnsplashReturn(o) ==
    /\ img.pc = "unsplash"
    /\ IF UnsplashRaises(o) /\ ~UnsplashCatches(o)
       THEN img' = [img EXCEPT !.pc = "raised"]
       ELSE IF ShortCircuit(UnsplashImage(o))
       THEN ImgFinish(img.invoked, <<UnsplashImage(o)>>, UnsplashImage(o))
       ELSE ImgLocal(img.invoked, <<UnsplashImage(o)>>)
    /\ UNCHANGED <<acqVars, usr, quiz, sched, dlv>>

\* files are added to or removed from the fallback directory between calls
DirChange(d) ==
    /\ img.pc \in {"idle", "done"}
    /\ d # img.dir
    /\ img' = [img EXCEPT !.dir = d]
    /\ UNCHANGED <<acqVars, usr, quiz, sched, dlv>>

Dirs == {[listable |-> FALSE, files |-> {}]} \cup
        {[listable |-> TRUE, files |-> fs] : fs \in SUBSET DirFiles}

IdleImg ==
    [key |-> FALSE, dir |-> [listable |-> TRUE, files |-> {}], pc |-> "idle",
     invoked |-> <<>>, yields |-> <<>>, result |-> NoImage, ncalls |-> 0, done |-> <<>>]

(***************************************************************************)
(* Quiz session tracker: active_quizzes (handlers.py 35), the registration *)
(* of a sent poll (send_lesson, 744-752) and on_poll_answer (1031-1107).   *)
(* The application dispatches updates concurrently (bot.py 56), so two     *)
(* handlers interleave at their awaits.                                    *)
(*   quiz.active_quizzes  poll id -> [has, nexpl, correct, empty]:         *)
(*                        tracked, the number of option_explanations       *)
(*                        stored with the session, its correct_option, and *)
(*                        whether its explanation is the empty string      *)
(*   quiz.created         poll ids the bot has sent                        *)
(*   quiz.hpc             per handler: "idle" | "send" (await at 1085) |   *)
(*                        "send2" (await at 1099) | "done"                 *)
(*   quiz.hpoll, hfound   per handler: its poll id; did line 1038 find it  *)
(*   quiz.hfeedback, hthanks  messages the current run has emitted         *)
(*   quiz.hexpl           per handler: "-" or [sel, source, prefix]: the   *)
(*                        selected option, where the explanation text came *)
(*                        from, and what was put in front of it            *)
(*   quiz.hovl            per handler: 0, or the number of the answer      *)
(*                        event that made this run overlap another run     *)
(*                        for the same poll                                *)
(*   quiz.nanswers        answer events dispatched so far                  *)
(*   quiz.runs            completed handler runs, in completion order      *)
(***************************************************************************)
Handlers == {1, 2}
PollIds == 1..MaxPolls
Selections == {0, 1}               \* answer.option_ids[0]; a quiz vote cannot be
                                   \* retracted, so option_ids is never empty
ExplCounts == {0, 2}               \* len(option_explanations) of a session

NoSession == [has |-> FALSE, nexpl |-> 0, correct |-> 0, empty |-> FALSE]

\* handlers.py 746-753: the session stored for a poll whose first option is
\* the correct one and whose explanation is not empty
Session(nexpl) == [has |-> TRUE, nexpl |-> nexpl, correct |-> 0, empty |-> FALSE]

\* the sessions send_lesson can store for a poll of two options: send_poll
\* accepted correct_option_id, so it is one of the options; the list of
\* option_explanations may be shorter than the options (openai_client.py
\* 163-178 fills it in only when the key is absent)
Sessions ==
    [has : {TRUE}, nexpl : 0..Cardinality(Selections), correct : Selections,
     empty : BOOLEAN]

InFlight(h) == quiz.hpc[h] \in {"send", "send2"}

\* lines 1073-1077: the explanation comes from option_explanations when the
\* list reaches the selected option, else from the lesson's explanation
ExplanationSource(session, sel) ==
    IF session.nexpl > 0 /\ session.nexpl > sel /\ sel >= 0 THEN "option" ELSE "lesson"

\* lines 1079-1082: what is put in front of the lesson's explanation
ExplanationPrefix(session, sel) ==
    IF ExplanationSource(session, sel) = "lesson" /\ sel # session.correct /\ ~session.empty
    THEN IF 0 <= session.correct /\ session.correct < Cardinality(Selections)
         THEN "correct option" ELSE "another option"
    ELSE "none"

\* lines 1072-1082: the explanation of the feedback message
Explanation(session, sel) ==
    [sel |-> sel, source |-> ExplanationSource(session, sel),
     prefix |-> ExplanationPrefix(session, sel)]

\* line 1038: poll_id in active_quizzes
Tracked(aq, poll) == aq[poll].has

QuizRun(h, q) ==
    [poll |-> q.hpoll[h], found |-> q.hfound[h], feedback |-> q.hfeedback[h],
     thanks |-> q.hthanks[h], ovl |-> q.hovl[h], tracked_after |-> q.active_quizzes[q.hpoll[h]].has]

\* the run of handler h ends in the state q
QuizEnd(h, q) == [q EXCEPT !.hpc[h] = "done", !.runs = Append(@, QuizRun(h, q))]

\* send_lesson, lines 732-752: a poll is sent and its session is stored
CreateQuiz(poll, session) ==
    /\ poll \notin quiz.created
    /\ quiz' = [quiz EXCEPT !.created = @ \cup {poll},
                            !.active_quizzes[poll] = session]
    /\ UNCHANGED <<acqVars, usr, img, sched, dlv>>

\* lines 1031-1085 (or 1031-1039 when the poll is not tracked)
PollAnswer(h, poll, sel) ==
    /\ quiz.hpc[h] \in {"idle", "done"}
    /\ quiz.nanswers < MaxAnswers
    /\ poll \in quiz.created
    /\ LET others == {g \in Handlers \ {h} : InFlight(g) /\ quiz.hpoll[g] = poll}
           n == quiz.nanswers + 1
           found == Tracked(quiz.active_quizzes, poll)
           q0 == [quiz EXCEPT !.nanswers = n, !.hpoll[h] = poll, !.hfound[h] = found,
                              !.hfeedback[h] = 0, !.hthanks[h] = 0,
                              !.hexpl[h] = IF found
                                           THEN Explanation(quiz.active_quizzes[poll], sel)
                                           ELSE "-",
                              !.hovl = [g \in Handlers |->
                                          IF found /\ others # {} /\ g \in others \cup {h}
                                          THEN n
                                          ELSE IF g = h THEN 0 ELSE @[g]]]
       IN  IF ~found
           THEN quiz' = QuizEnd(h, q0)
           ELSE quiz' = [q0 EXCEPT !.hpc[h] = "send"]
    /\ UNCHANGED <<acqVars, usr, img, sched, dlv>>

\* lines 1085-1099: the feedback send ends; on success the session is deleted,
\* and a KeyError of the del lands in the except branch like a failed send
SendReturn(h, ok) ==
    /\ quiz.hpc[h] = "send"
    /\ LET poll == quiz.hpoll[h]
       IN  IF ok
           THEN IF quiz.active_quizzes[poll].has
                THEN quiz' = QuizEnd(h, [quiz EXCEPT !.hfeedback[h] = @ + 1,
                                                     !.active_quizzes[poll] = NoSession])
                ELSE quiz' = [quiz EXCEPT !.hfeedback[h] = @ + 1, !.hpc[h] = "send2"]
           ELSE quiz' = [quiz EXCEPT !.hpc[h] = "send2"]
    /\ UNCHANGED <<acqVars, usr, img, sched, dlv>>

\* lines 1099-1107: the fallback send ends; a failure of the send or of the del
\* is swallowed by the inner except
Send2Return(h, ok) ==
    /\ quiz.hpc[h] = "send2"
    /\ LET poll == quiz.hpoll[h]
       IN  IF ok
           THEN quiz' = QuizEnd(h, [quiz EXCEPT !.hthanks[h] = @ + 1,
                                                !.active_quizzes[poll] = NoSession])
           ELSE quiz' = QuizEnd(h, quiz)
    /\ UNCHANGED <<acqVars, usr, img, sched, dlv>>

IdleQuiz ==
    [active_quizzes |-> [p \in PollIds |-> NoSession], created |-> {},
     hpc |-> [h \in Handlers |-> "idle"], hpoll |-> [h \in Handlers |-> 1],
     hfound |-> [h \in Handlers |-> FALSE], hfeedback |-> [h \in Handlers |-> 0],
     hthanks |-> [h \in Handlers |-> 0], hexpl |-> [h \in Handlers |-> "-"],
     hovl |-> [h \in Handlers |-> 0],
     nanswers |-> 0, runs |-> <<>>]

(***************************************************************************)
(* Delivery of one lesson: the sending part of send_lesson (handlers.py    *)
(* 559-775) as a function of what the transport does. An environment e     *)
(* says which image get_image_for_lesson supplied and which sends succeed: *)
(*   e.image     "none" | "url" | "file" (line 559-561, 623)               *)
(*   e.long      the text does not fit the caption (lines 550-556)         *)
(*   e.photo     send_photo succeeds (564, 627)                            *)
(*   e.rest      the send of the remaining text succeeds (578, 604, 641)   *)
(*   e.reupload  save_image_locally and the second send_photo succeed      *)
(*               (587-595)                                                 *)
(*   e.text      the text-only send_message succeeds (665-678, 686-699)    *)
(*   e.poll      send_poll succeeds (732)                                  *)
(*   e.polltext  the quiz sent as text succeeds (764)                      *)
(***************************************************************************)
ImageKinds == {"none", "url", "file"}
SendEnvs ==
    [image : ImageKinds, long : BOOLEAN, photo : BOOLEAN, rest : BOOLEAN,
     reupload : BOOLEAN, text : BOOLEAN, poll : BOOLEAN, polltext : BOOLEAN]

\* lines 564-582, 590-608, 627-645: a photo with its caption, then the
\* remaining text; ok is FALSE when one of the sends raised
PhotoThenRest(photo_ok, e) ==
    IF ~photo_ok THEN [msgs |-> <<>>, ok |-> FALSE]
    ELSE IF ~e.long THEN [msgs |-> <<"photo">>, ok |-> TRUE]
    ELSE IF e.rest THEN [msgs |-> <<"photo", "rest">>, ok |-> TRUE]
    ELSE [msgs |-> <<"photo">>, ok |-> FALSE]

\* lines 658-678 and 679-699: the whole lesson as text
TextOnly(e) ==
    IF e.text THEN [msgs |-> <<"text">>, ok |-> TRUE] ELSE [msgs |-> <<>>, ok |-> FALSE]

\* lines 559-699. The text-only branches at 619 and 653 call
\* update.message.reply_text, and `update` is not defined in send_lesson: the
\* NameError is caught at 658, whose branch sends the lesson as text.
LessonChain(e) ==
    IF e.image = "none" THEN TextOnly(e)
    ELSE LET first == PhotoThenRest(e.photo, e)
         IN  IF first.ok THEN first
             ELSE IF e.image = "url"
             THEN LET second == PhotoThenRest(e.reupload, e)
                      third == TextOnly(e)
                  IN  IF second.ok
                      THEN [msgs |-> first.msgs \o second.msgs, ok |-> TRUE]
                      ELSE [msgs |-> first.msgs \o second.msgs \o third.msgs,
                            ok |-> third.ok]
             ELSE LET third == TextOnly(e)
                  IN  [msgs |-> first.msgs \o third.msgs, ok |-> third.ok]

\* lines 730-768: the quiz as a poll, else as a text message
QuizChain(e) ==
    IF e.poll THEN [msgs |-> <<"poll">>, ok |-> TRUE]
    ELSE IF e.polltext THEN [msgs |-> <<"quiztext">>, ok |-> TRUE]
    ELSE [msgs |-> <<>>, ok |-> FALSE]

\* lines 344-775: every exception is caught at 773 and None is returned, so
\* the call never raises. `outcome` is "failed" when the lesson itself could
\* not be sent, "noquiz" when only the quiz could not, else "delivered".
send_lesson(e) ==
    LET lesson == LessonChain(e)
        question == QuizChain(e)
    IN  IF ~lesson.ok
        THEN [raised |-> FALSE, ret |-> "None", outcome |-> "failed", msgs |-> lesson.msgs,
              poll |-> FALSE]
        ELSE IF ~question.ok
        THEN [raised |-> FALSE, ret |-> "None", outcome |-> "noquiz", msgs |-> lesson.msgs,
              poll |-> FALSE]
        ELSE [raised |-> FALSE, ret |-> "lesson", outcome |-> "delivered",
              msgs |-> lesson.msgs \o question.msgs, poll |-> e.poll]

(***************************************************************************)
(* The lesson jobs of LessonScheduler.schedule_jobs (scheduler.py 25-44):  *)
(* two daily cron jobs with misfire_grace_time=600, run by APScheduler's   *)
(* AsyncIOScheduler with its default job settings. The library is not part *)
(* of the repository; its wake-up is modelled after its documentation:     *)
(* every job whose next run time has passed gets the fire times from that  *)
(* time up to now, only the last of them when the job coalesces (the       *)
(* default), and a fire time is run unless it is more than the grace time  *)
(* in the past. Times are seconds since the midnight before the start. In  *)
(* SpecMisfire sched holds the scheduler:                                  *)
(*   sched.clock          the time of the last wake-up                     *)
(*   sched.next_run_time  job -> its next fire time                        *)
(*   sched.wakes          wake-ups so far                                  *)
(*   sched.runs           calls of send_scheduled_lesson: [job, run_time,  *)
(*                        at, wake]                                        *)
(*   sched.missed         fire times given up: [job, run_time, at, wake]   *)
(***************************************************************************)
LessonJobs == {"morning_lesson", "evening_lesson"}

DaySeconds == 24 * 3600

\* scheduler.py 31, 40: CronTrigger(hour=10, minute=0), (hour=18, minute=0)
FireTimeOfDay(job) == IF job = "morning_lesson" THEN 10 * 3600 ELSE 18 * 3600

\* the mutant of misfire_grace_time: a grace time of a day
GraceOfADay == DaySeconds

\* scheduler.py 34, 43
misfire_grace_time == 600

\* no job_defaults are given (scheduler.py 23): the library's default
coalesce == TRUE

\* the fire times of a job from its next run time up to now
RunTimes(next, t) ==
    IF next > t THEN <<>>
    ELSE [i \in 1..((t - next) \div DaySeconds + 1) |-> next + (i - 1) * DaySeconds]

\* the fire times handed to the executor
SubmittedRunTimes(next, t) ==
    LET run_times == RunTimes(next, t)
    IN  IF run_times # <<>> /\ coalesce THEN <<run_times[Len(run_times)]>>
        ELSE run_times

\* the executor runs a fire time unless it lies more than the grace time back
WithinGrace(run_time, t) == t - run_time <= misfire_grace_time

\* the scheduler wakes up at time t and processes its jobs
WakeUp(t) ==
    /\ sched.wakes < MaxWakes
    /\ t > sched.clock
    /\ LET w == sched.wakes + 1
           due == {job \in LessonJobs : sched.next_run_time[job] <= t}
           entry(job, k) == [job |-> job, at |-> t, wake |-> w,
                             run_time |-> SubmittedRunTimes(sched.next_run_time[job], t)[k]]
           entries(job) ==
               [k \in 1..Len(SubmittedRunTimes(sched.next_run_time[job], t)) |-> entry(job, k)]
           all == (IF "morning_lesson" \in due THEN entries("morning_lesson") ELSE <<>>)
                  \o (IF "evening_lesson" \in due THEN entries("evening_lesson") ELSE <<>>)
       IN  sched' = [sched EXCEPT
                        !.clock = t, !.wakes = w,
                        !.runs = @ \o SelectSeq(all, LAMBDA e : WithinGrace(e.run_time, t)),
                        !.missed = @ \o SelectSeq(all, LAMBDA e : ~WithinGrace(e.run_time, t)),
                        !.next_run_time =
                            [job \in LessonJobs |->
                                IF job \in due
                                THEN LET rt == RunTimes(sched.next_run_time[job], t)
                                     IN  rt[Len(rt)] + DaySeconds
                                ELSE @[job]]]
    /\ UNCHANGED <<acqVars, usr, img, quiz, dlv>>

(***************************************************************************)
(* Scheduled batch: LessonScheduler.send_scheduled_lesson (scheduler.py    *)
(* 67-116) and UIUXLessonBot.send_scheduled_lesson (bot.py 107-145).       *)
(*   sched.variant      which of the two runs the batch                    *)
(*   sched.channel      settings.CHANNEL_ID is set                         *)
(*   sched.subscribers  persistence.subscribers                            *)
(*   sched.pc           "idle" | "channel", "sending" (await send_lesson)  *)
(*                      | "checking" (await get_chat) | "done" | "aborted" *)
(*   sched.snapshot     the list the loop iterates over                    *)
(*   sched.idx, fidx    position in snapshot, in failed_subscribers        *)
(*   sched.success_count, failed_subscribers, lesson_success  the locals   *)
(*   sched.attempts     per user: send_lesson calls made in this batch     *)
(*   sched.outcome      per user: how the delivery of this batch ended     *)
(*   sched.rechecked    users submitted to get_chat in this batch          *)
(*   sched.probe        per user: how get_chat ended in this batch         *)
(*   sched.removed      users the batch took out of the subscribers        *)
(***************************************************************************)
Users == 1..MaxUsers

Range(seq) == {seq[i] : i \in 1..Len(seq)}

\* persistence.py 118: list(subscribers). Users are interchangeable, so the
\* list is taken in ascending order.
RECURSIVE get_subscribers(_)
get_subscribers(S) ==
    IF S = {} THEN <<>>
    ELSE LET least == CHOOSE u \in S : \A v \in S : u <= v
         IN  <<least>> \o get_subscribers(S \ {least})

\* handlers.py 752: the option_explanations stored with a session of the batch
LessonExplCount == CHOOSE n \in ExplCounts : n > 0

\* the mutant of LoopCatches: the loop's except clause catches nothing
LoopCatchesNothing(exc) == FALSE

\* scheduler.py 91, bot.py 129: except Exception
LoopCatches(exc) == TRUE

\* bot.py 127: send_lesson(None, None, theme, user_id=user_id) binds user_id
\* twice (handlers.py 344), so the call raises TypeError before the coroutine
\* exists; scheduler.py 89 passes keywords only
CallRaises(variant) == variant = "bot"

\* scheduler.py 106-116, bot.py 144-145
SchedFinish(s) == [s EXCEPT !.pc = "done", !.lesson_success = s.success_count > 0]

\* scheduler.py 98-104, bot.py 136-142: up to the next await of get_chat
EnterRecheck(s) ==
    IF s.fidx <= Len(s.failed_subscribers) THEN [s EXCEPT !.pc = "checking"]
    ELSE SchedFinish(s)

\* bot.py 125-131 for the recipients from idx on: every call raises at once
RECURSIVE BotLoop(_)
BotLoop(s) ==
    IF s.idx > Len(s.snapshot) THEN EnterRecheck(s)
    ELSE LET u == s.snapshot[s.idx]
             called == [s EXCEPT !.attempts[u] = @ + 1, !.outcome[u] = "failed"]
         IN  IF LoopCatches("TypeError")
             THEN BotLoop([called EXCEPT !.failed_subscribers = Append(@, u),
                                         !.idx = @ + 1])
             ELSE [called EXCEPT !.pc = "aborted"]

\* scheduler.py 87-89: up to the next await of send_lesson
EnterLoop(s) ==
    IF CallRaises(s.variant) THEN BotLoop(s)
    ELSE IF s.idx > Len(s.snapshot) THEN EnterRecheck(s)
    ELSE [s EXCEPT !.pc = "sending", !.attempts[s.snapshot[s.idx]] = @ + 1]

\* the smallest poll id not yet used
FreshPoll == CHOOSE p \in PollIds \ quiz.created : \A r \in PollIds \ quiz.created : p <= r

\* the mutant of RegisterPoll: the session is stored whether or not the poll
\* was sent
RegisterPollAlways(sent, nexpl) ==
    quiz' = [quiz EXCEPT !.created = @ \cup {FreshPoll},
                         !.active_quizzes[FreshPoll] = Session(nexpl)]

\* handlers.py 744-752, when send_lesson sent its quiz as a poll
RegisterPoll(sent, nexpl) ==
    IF sent
    THEN quiz' = [quiz EXCEPT !.created = @ \cup {FreshPoll},
                              !.active_quizzes[FreshPoll] = Session(nexpl)]
    ELSE UNCHANGED quiz

\* scheduler.py 67-89, bot.py 107-139: the job fires
StartBatch ==
    /\ sched.pc \in {"idle", "done"}
    /\ LET s0 == [sched EXCEPT !.snapshot = IF sched.channel THEN <<>>
                                            ELSE get_subscribers(sched.subscribers),
                               !.idx = 1, !.fidx = 1, !.success_count = 0,
                               !.failed_subscribers = <<>>, !.lesson_success = FALSE,
                               !.attempts = [u \in Users |-> 0],
                               !.outcome = [u \in Users |-> "-"],
                               !.rechecked = {},
                               !.probe = [u \in Users |-> "-"],
                               !.removed = {}]
       IN  IF sched.channel
           THEN IF CallRaises(sched.variant)
                THEN sched' = [s0 EXCEPT !.pc = "done"]
                ELSE sched' = [s0 EXCEPT !.pc = "channel"]
           ELSE sched' = EnterLoop(s0)
    /\ UNCHANGED <<acqVars, usr, img, quiz, dlv>>

\* scheduler.py 76-81 and 109-116: the channel delivery returns
ChannelReturn(e) ==
    /\ sched.pc = "channel"
    /\ send_lesson(e).poll => quiz.created # PollIds
    /\ sched' = [sched EXCEPT !.pc = "done", !.lesson_success = TRUE]
    /\ RegisterPoll(send_lesson(e).poll, LessonExplCount)
    /\ UNCHANGED <<acqVars, usr, img, dlv>>

\* scheduler.py 89-93 and on to the next await: send_lesson returns for the
\* recipient at idx
SendLessonReturn(e) ==
    /\ sched.pc = "sending"
    /\ send_lesson(e).poll => quiz.created # PollIds
    /\ LET u == sched.snapshot[sched.idx]
           r == send_lesson(e)
           s1 == [sched EXCEPT !.outcome[u] = r.outcome, !.idx = @ + 1]
       IN  IF ~r.raised
           THEN sched' = EnterLoop([s1 EXCEPT !.success_count = @ + 1])
           ELSE IF LoopCatches("Exception")
           THEN sched' = EnterLoop([s1 EXCEPT !.failed_subscribers = Append(@, u)])
           ELSE sched' = [s1 EXCEPT !.pc = "aborted"]
    /\ RegisterPoll(send_lesson(e).poll, LessonExplCount)
    /\ UNCHANGED <<acqVars, usr, img, dlv>>

\* the mutant of ProbeRemoves: the recipient is removed whatever get_chat says
ProbeRemovesAlways(valid) == TRUE

\* scheduler.py 102-103, bot.py 140-141: remove_subscriber runs in the except
\* branch of the get_chat call
ProbeRemoves(valid) == ~valid

\* scheduler.py 99-104, bot.py 137-142: get_chat returns or raises
RecheckReturn(valid) ==
    /\ sched.pc = "checking"
    /\ LET u == sched.failed_subscribers[sched.fidx]
       IN  sched' = EnterRecheck([sched EXCEPT
                                     !.rechecked = @ \cup {u},
                                     !.probe[u] = IF valid THEN "valid" ELSE "invalid",
                                     !.fidx = @ + 1,
                                     !.removed = IF ProbeRemoves(valid) /\ u \in sched.subscribers
                                                 THEN @ \cup {u} ELSE @,
                                     !.subscribers = IF ProbeRemoves(valid)
                                                     THEN @ \ {u} ELSE @])
    /\ UNCHANGED <<acqVars, usr, img, quiz, dlv>>

\* persistence.py 80-97: a /start or /stop handled while the batch awaits
Subscribe(u) ==
    /\ u \notin sched.subscribers
    /\ sched' = [sched EXCEPT !.subscribers = @ \cup {u}]
    /\ UNCHANGED <<acqVars, usr, img, quiz, dlv>>

Unsubscribe(u) ==
    /\ u \in sched.subscribers
    /\ sched' = [sched EXCEPT !.subscribers = @ \ {u}]
    /\ UNCHANGED <<acqVars, usr, img, quiz, dlv>>

IdleSched ==
    [variant |-> "scheduler", channel |-> FALSE, subscribers |-> {}, pc |-> "idle",
     snapshot |-> <<>>, idx |-> 1, fidx |-> 1, success_count |-> 0,
     failed_subscribers |-> <<>>, lesson_success |-> FALSE,
     attempts |-> [u \in Users |-> 0], outcome |-> [u \in Users |-> "-"],
     rechecked |-> {}, probe |-> [u \in Users |-> "-"], removed |-> {}]

(***************************************************************************)
(* Texts of the delivery formatter (handlers.py 484-556, 953-1028). A text *)
(* is a sequence of paragraphs joined by "\n\n"; a paragraph is a piece    *)
(* [k, i, from, to]: the characters from..to-1 of                          *)
(*   k = "title"  the title line  "✨ <b>" title "</b> ✨"  (line 535)       *)
(*   k = "body"   the i-th paragraph of the normalized body; the first one *)
(*                starts with the "\n" of lines 531-532                    *)
(*   k = "rule"   the separator line (539)                                 *)
(*   k = "attr"   the attribution line "📸 <i>" attribution "</i>" (544)    *)
(*   k = "end"    the empty string after a closing "\n\n"                  *)
(***************************************************************************)
CaptionLimit == 1024
QuestionCap == 300        \* handlers.py 710
OptionCap == 100          \* handlers.py 720
ExplanationCap == 200     \* handlers.py 727
MessageLimit == 4000
max_chunk_size == 4000
TitleAffixLen == 11
RuleLen == 22
AttributionAffixLen == 9

Piece(k, i, from, to) == [k |-> k, i |-> i, from |-> from, to |-> to]
PieceLen(x) == x.to - x.from

RECURSIVE SumLen(_)
SumLen(text) == IF text = <<>> THEN 0 ELSE PieceLen(Head(text)) + SumLen(Tail(text))

\* len() of the string a text stands for
StrLen(text) == IF text = <<>> THEN 0 ELSE SumLen(text) + 2 * (Len(text) - 1)

EndPiece == Piece("end", 0, 0, 0)

\* line 535: message_title, which ends with "\n\n"
TitlePiece(title_len) == Piece("title", 0, 0, TitleAffixLen + title_len)
message_title(title_len) == <<TitlePiece(title_len), EndPiece>>

\* lines 491-499, 531-532: the body paragraphs, the first with its leading "\n"
BodyPieces(body) ==
    [i \in 1..Len(body) |-> Piece("body", i, 0, IF i = 1 THEN body[i] + 1 ELSE body[i])]

\* lines 536-544: message_content + attribution, which ends with "\n\n"
message_content(body, attr_len) ==
    BodyPieces(body) \o <<Piece("rule", 0, 0, RuleLen)>> \o
    (IF attr_len > 0 THEN <<Piece("attr", 0, 0, AttributionAffixLen + attr_len)>> ELSE <<>>) \o
    <<EndPiece>>

\* message_title + rest: the closing "\n\n" of the title is the separator
TitleThen(title_len, rest) == <<TitlePiece(title_len)>> \o rest

\* the mutant of HardSplit: only the first slice of the paragraph is kept
HardSplitFirstOnly(x, max) == <<<<[x EXCEPT !.to = x.from + max]>>>>

\* lines 999-1001: paragraph[i:i + max_chunk_size] for i in range(0, len, max)
RECURSIVE HardSplit(_, _)
HardSplit(x, max) ==
    IF PieceLen(x) <= max THEN <<<<x>>>>
    ELSE <<<<[x EXCEPT !.to = x.from + max]>>>> \o HardSplit([x EXCEPT !.from = @ + max], max)

\* lines 983-1002: the loop over the paragraphs from k on
RECURSIVE ChunkLoop(_, _, _, _, _)
ChunkLoop(paragraphs, k, chunks, current_chunk, max) ==
    IF k > Len(paragraphs)
    THEN IF StrLen(current_chunk) > 0 THEN Append(chunks, current_chunk) ELSE chunks
    ELSE LET paragraph == paragraphs[k]
         IN  IF StrLen(current_chunk) + PieceLen(paragraph) + 2 <= max
             THEN ChunkLoop(paragraphs, k + 1, chunks,
                            IF StrLen(current_chunk) > 0
                            THEN Append(current_chunk, paragraph)
                            ELSE <<paragraph>>,
                            max)
             ELSE LET stored == IF StrLen(current_chunk) > 0
                                THEN Append(chunks, current_chunk)
                                ELSE chunks
                  IN  IF PieceLen(paragraph) <= max
                      THEN ChunkLoop(paragraphs, k + 1, stored, <<paragraph>>, max)
                      ELSE ChunkLoop(paragraphs, k + 1,
                                     stored \o HardSplit(paragraph, max), <<>>, max)

\* the mutant of Chunks: the text is sent as one chunk whatever its length
ChunksUnsplit(text, max) == <<text>>

\* lines 956-1006: the texts send_large_text_in_chunks sends, in order
Chunks(text, max) ==
    IF StrLen(text) <= max THEN <<text>> ELSE ChunkLoop(text, 1, <<>>, <<>>, max)

IdleDlv ==
    [pc |-> "idle", title_len |-> 0, body |-> <<>>, outcome |-> "none", image_data |-> NoImage,
     env |-> [photo |-> FALSE, reupload |-> FALSE, rest |-> FALSE, plain |-> FALSE,
              text |-> FALSE, poll |-> FALSE, polltext |-> FALSE],
     sent |-> [ret |-> "None", msgs |-> <<>>, quiz |-> <<>>, tried |-> <<>>,
               delivered |-> FALSE]]

(***************************************************************************)
(* The messages send_lesson sends for a lesson (handlers.py 434-446 and    *)
(* 546-699), as a function of the lesson, the image and what the transport *)
(* does. An environment e says which classes of sends succeed:             *)
(*   e.photo     send_photo with the URL or the local file (564, 627)      *)
(*   e.reupload  save_image_locally and the send_photo of the copy (587)   *)
(*   e.rest      HTML send_message of continuation text (578, 958, 1011)   *)
(*   e.plain     send_message without parse_mode (969, 1023)               *)
(*   e.text      send_message of the text-only lesson (665, 674, 686, 695) *)
(*   e.poll, e.polltext  as in QuizChain                                   *)
(* A message is [kind, via, html, text]; a lesson is given by the length   *)
(* of its title and the lengths of the paragraphs of its normalized body.  *)
(* The result names the delivery steps tried, in order ("url", "file",     *)
(* "upload", "text"), and whether one of them ended without an exception.  *)
(***************************************************************************)
DlvEnvs ==
    [photo : BOOLEAN, reupload : BOOLEAN, rest : BOOLEAN, plain : BOOLEAN, text : BOOLEAN,
     poll : BOOLEAN, polltext : BOOLEAN]

Msg(kind, via, html, text) == [kind |-> kind, via |-> via, html |-> html, text |-> text]

\* lines 1009-1028 (and 957-976): each chunk is sent as HTML, else without
\* markup, else dropped; nothing is raised
RECURSIVE SendEach(_, _)
SendEach(chunks, e) ==
    IF chunks = <<>> THEN <<>>
    ELSE (IF e.rest THEN <<Msg("text", "-", TRUE, Head(chunks))>>
          ELSE IF e.plain THEN <<Msg("text", "-", FALSE, Head(chunks))>>
          ELSE <<>>) \o SendEach(Tail(chunks), e)

send_large_text_in_chunks(text, e) == SendEach(Chunks(text, max_chunk_size), e)

\* the mutant of SendRemaining: the remaining text is not sent
SendRemainingNothing(remaining_text, e) == [msgs |-> <<>>, ok |-> TRUE]

\* lines 572-582, 598-608, 635-645: the remaining text after the photo
SendRemaining(remaining_text, e) ==
    IF StrLen(remaining_text) > MessageLimit
    THEN [msgs |-> send_large_text_in_chunks(remaining_text, e), ok |-> TRUE]
    ELSE IF e.rest
    THEN [msgs |-> <<Msg("text", "-", TRUE, remaining_text)>>, ok |-> TRUE]
    ELSE [msgs |-> <<>>, ok |-> FALSE]

\* lines 564-582, 590-608, 627-645; remaining_text is <<>> for None
PhotoWithCaption(photo_ok, via, caption, remaining_text, e) ==
    IF ~photo_ok THEN [msgs |-> <<>>, ok |-> FALSE]
    ELSE IF remaining_text = <<>>
    THEN [msgs |-> <<Msg("photo", via, TRUE, caption)>>, ok |-> TRUE]
    ELSE LET rest == SendRemaining(remaining_text, e)
         IN  [msgs |-> <<Msg("photo", via, TRUE, caption)>> \o rest.msgs, ok |-> rest.ok]

\* lines 660-678 and 681-699: the lesson as text, title first when too long
FullText(title_len, content, e) ==
    IF ~e.text THEN [msgs |-> <<>>, ok |-> FALSE]
    ELSE IF StrLen(TitleThen(title_len, content)) > MessageLimit
    THEN [msgs |-> <<Msg("text", "-", TRUE, message_title(title_len))>> \o
                   send_large_text_in_chunks(content, e),
          ok |-> TRUE]
    ELSE [msgs |-> <<Msg("text", "-", TRUE, TitleThen(title_len, content))>>, ok |-> TRUE]

\* lines 612-622, 646-656, 658-678: the caption without an image. A caption
\* of 4000 characters or less goes to update.message.reply_text, `update` is
\* not defined, and the NameError is caught at 658, which sends the full text.
WithoutImage(title_len, caption, content, e) ==
    IF StrLen(caption) > MessageLimit
    THEN [msgs |-> send_large_text_in_chunks(caption, e), ok |-> TRUE]
    ELSE FullText(title_len, content, e)

\* lines 546-699
DeliverLesson(title_len, body, image, e) ==
    LET content == message_content(body, Len(image.attribution))
        fits == StrLen(TitleThen(title_len, content)) <= CaptionLimit
        caption == IF fits THEN TitleThen(title_len, content) ELSE message_title(title_len)
        remaining_text == IF fits THEN <<>> ELSE content
        text_only == FullText(title_len, message_content(body, 0), e)
    IN  IF image.kind = "none"
        THEN [msgs |-> text_only.msgs, ok |-> text_only.ok, tried |-> <<"text">>]
        ELSE LET first == PhotoWithCaption(e.photo, image.kind, caption, remaining_text, e)
             IN  IF first.ok
                 THEN [msgs |-> first.msgs, ok |-> TRUE, tried |-> <<image.kind>>]
                 ELSE IF image.kind = "url"
                 THEN LET second == PhotoWithCaption(e.reupload, "upload", caption,
                                                     remaining_text, e)
                          third == WithoutImage(title_len, caption, content, e)
                      IN  IF second.ok
                          THEN [msgs |-> first.msgs \o second.msgs, ok |-> TRUE,
                                tried |-> <<"url", "upload">>]
                          ELSE [msgs |-> first.msgs \o second.msgs \o third.msgs,
                                ok |-> third.ok, tried |-> <<"url", "upload", "text">>]
                 ELSE LET third == WithoutImage(title_len, caption, content, e)
                      IN  [msgs |-> first.msgs \o third.msgs, ok |-> third.ok,
                           tried |-> <<"file", "text">>]

\* lines 434-446: what image_data becomes when the image task returns an
\* image, returns None, raises, or exceeds the 30 s of wait_for
ImageOutcomes == {"returned", "none", "raised", "timeout"}

\* the mutant of ImageData: the image is used whatever the task did
ImageDataAlways(outcome, image) == image

ImageData(outcome, image) == IF outcome = "returned" THEN image ELSE NoImage

\* lines 434-775 for one recipient: the messages sent and the value returned
SendLessonMessages(title_len, body, outcome, image, e) ==
    LET lesson == DeliverLesson(title_len, body, ImageData(outcome, image), e)
        question == QuizChain(e)
    IN  IF ~lesson.ok
        THEN [ret |-> "None", msgs |-> lesson.msgs, quiz |-> <<>>, tried |-> lesson.tried,
              delivered |-> FALSE]
        ELSE IF ~question.ok
        THEN [ret |-> "None", msgs |-> lesson.msgs, quiz |-> <<>>, tried |-> lesson.tried,
              delivered |-> TRUE]
        ELSE [ret |-> "lesson", msgs |-> lesson.msgs, quiz |-> question.msgs,
              tried |-> lesson.tried, delivered |-> TRUE]

\* send_lesson for one recipient: the call runs from the image task to return
SendLesson(title_len, body, outcome, image, e) ==
    /\ dlv.pc = "idle"
    /\ dlv' = [pc |-> "done", title_len |-> title_len, body |-> body, outcome |-> outcome,
               image_data |-> ImageData(outcome, image), env |-> e,
               sent |-> SendLessonMessages(title_len, body, outcome, image, e)]
    /\ UNCHANGED <<acqVars, usr, img, quiz, sched>>

\* send_lesson from the image task to the last send of the lesson (lines
\* 434-699): the call goes on to the quiz, or ends in the handler of line 773
SendLessonContent(title_len, body, outcome, image, e) ==
    /\ dlv.pc = "idle"
    /\ LET lesson == DeliverLesson(title_len, body, ImageData(outcome, image), e)
       IN  dlv' = [pc |-> IF lesson.ok THEN "quiz" ELSE "done",
                   title_len |-> title_len, body |-> body, outcome |-> outcome,
                   image_data |-> ImageData(outcome, image), env |-> e,
                   sent |-> [ret |-> "None", msgs |-> lesson.msgs, quiz |-> <<>>,
                             tried |-> lesson.tried, delivered |-> lesson.ok]]
    /\ UNCHANGED <<acqVars, usr, img, quiz, sched>>

\* send_lesson from line 701 to its return: the poll and its session, or the
\* quiz as text, or the handler of line 773
SendLessonQuiz ==
    /\ dlv.pc = "quiz"
    /\ LET question == QuizChain(dlv.env)
       IN  dlv' = [dlv EXCEPT !.pc = "done",
                              !.sent.quiz = question.msgs,
                              !.sent.ret = IF question.ok THEN "lesson" ELSE "None"]
    /\ RegisterPoll(dlv.env.poll, LessonExplCount)
    /\ UNCHANGED <<acqVars, usr, img, sched>>

(***************************************************************************)
(* Texts of send_lesson character by character (handlers.py 37-55,         *)
(* 484-557, 701-728). A string is a sequence of items [c, n]: the          *)
(* character c, n times in a row; n is 1 except for runs of the letter     *)
(* "a", which no pattern of the code matches. In the specifications of     *)
(* this part dlv holds one call of send_lesson:                            *)
(*   dlv.pc      "idle" | "quiz" (the quiz was handed to send_poll) |      *)
(*               "sent" (the lesson was handed to the transport)           *)
(*   dlv.lesson  the fields of lesson_data the step reads; content is      *)
(*               [kind, text, points, array]: a string text (kind "str")   *)
(*               or a list of points (kind "list"); array says that text   *)
(*               was written out from the list points                      *)
(*   dlv.poll    [question, options, explanation] computed at 701-728      *)
(*   dlv.image   "none" | "plain" | "credited": image_data is None, has no *)
(*               attribution, has one                                      *)
(*   dlv.body    content after lines 487-521                               *)
(*   dlv.emitted the texts handed to the transport when every send         *)
(*               succeeds: the caption and the remaining text, or the full *)
(*               message                                                   *)
(***************************************************************************)
Char(c) == [c |-> c, n |-> 1]

\* the string of the characters chars
Str(chars) == [i \in DOMAIN chars |-> Char(chars[i])]

Pad(n) == IF n = 0 THEN <<>> ELSE <<[c |-> "a", n |-> n]>>

Dots == Str(<<".", ".", ".">>)

Br == <<"<", "b", "r", ">">>

\* line 709: the heading put in front of the question; "@" stands for its
\* emoji, one character to len()
QuizHeading == Str(<<"@", " ", "Q", "U", "I", "Z", ":", " ">>)

SeqsUpTo(S, n) == UNION {[1..k -> S] : k \in 0..n}

\* len(s)
RECURSIVE CharLen(_)
CharLen(s) == IF s = <<>> THEN 0 ELSE Head(s).n + CharLen(Tail(s))

\* s[:k]
RECURSIVE TakeChars(_, _)
TakeChars(s, k) ==
    IF k <= 0 \/ s = <<>> THEN <<>>
    ELSE IF Head(s).n <= k THEN <<Head(s)>> \o TakeChars(Tail(s), k - Head(s).n)
    ELSE <<[c |-> Head(s).c, n |-> k]>>

\* s[i:].startswith(pat), for a pattern without the letter "a"
StartsAt(s, i, pat) ==
    /\ i + Len(pat) - 1 <= Len(s)
    /\ \A k \in 1..Len(pat) : s[i + k - 1].c = pat[k]

\* str.replace(old, new) from item i on: leftmost matches, not overlapping
RECURSIVE ReplaceFrom(_, _, _, _)
ReplaceFrom(s, i, old, new) ==
    IF i > Len(s) THEN <<>>
    ELSE IF StartsAt(s, i, old) THEN new \o ReplaceFrom(s, i + Len(old), old, new)
    ELSE <<s[i]>> \o ReplaceFrom(s, i + 1, old, new)

str_replace(s, old, new) == ReplaceFrom(s, 1, old, new)

\* the pattern <[^>]*> at item i: the position of the closing ">", or 0
TagEnd(s, i) ==
    IF s[i].c = "<" /\ \E j \in (i + 1)..Len(s) : s[j].c = ">"
    THEN CHOOSE j \in (i + 1)..Len(s) :
             s[j].c = ">" /\ \A k \in (i + 1)..(j - 1) : s[k].c # ">"
    ELSE 0

\* line 706: re.sub(r'<[^>]*>', '', s) from item i on
RECURSIVE StripTagsFrom(_, _)
StripTagsFrom(s, i) ==
    IF i > Len(s) THEN <<>>
    ELSE IF TagEnd(s, i) # 0 THEN StripTagsFrom(s, TagEnd(s, i) + 1)
    ELSE <<s[i]>> \o StripTagsFrom(s, i + 1)

\* lines 717, 725: re.sub(r'<[^>]*>|\*\*|\*|<br>|\n', ' ', s) from item i on;
\* the alternatives are tried in their order at each position
RECURSIVE SubMarkupFrom(_, _)
SubMarkupFrom(s, i) ==
    IF i > Len(s) THEN <<>>
    ELSE IF TagEnd(s, i) # 0 THEN <<Char(" ")>> \o SubMarkupFrom(s, TagEnd(s, i) + 1)
    ELSE IF StartsAt(s, i, <<"*", "*">>) THEN <<Char(" ")>> \o SubMarkupFrom(s, i + 2)
    ELSE IF s[i].c = "*" THEN <<Char(" ")>> \o SubMarkupFrom(s, i + 1)
    ELSE IF StartsAt(s, i, Br) THEN <<Char(" ")>> \o SubMarkupFrom(s, i + 4)
    ELSE IF s[i].c = "\n" THEN <<Char(" ")>> \o SubMarkupFrom(s, i + 1)
    ELSE <<s[i]>> \o SubMarkupFrom(s, i + 1)

\* the characters \s matches, among those of the model
IsSpace(item) == item.c \in {" ", "\n"}

\* lines 718, 726: re.sub(r'\s+', ' ', s) from item i on
RECURSIVE CollapseSpacesFrom(_, _)
CollapseSpacesFrom(s, i) ==
    IF i > Len(s) THEN <<>>
    ELSE IF IsSpace(s[i])
    THEN IF i > 1 /\ IsSpace(s[i - 1]) THEN CollapseSpacesFrom(s, i + 1)
         ELSE <<Char(" ")>> \o CollapseSpacesFrom(s, i + 1)
    ELSE <<s[i]>> \o CollapseSpacesFrom(s, i + 1)

\* str.strip()
Strip(s) ==
    LET inner == {i \in 1..Len(s) : ~IsSpace(s[i])}
    IN  IF inner = {} THEN <<>>
        ELSE SubSeq(s, CHOOSE i \in inner : \A j \in inner : i <= j,
                       CHOOSE i \in inner : \A j \in inner : i >= j)

\* lines 704-707
CleanQuestion(q) ==
    LET spaced == str_replace(str_replace(q, Br, Str(<<" ">>)), <<"\n">>, Str(<<" ">>))
        untagged == StripTagsFrom(spaced, 1)
    IN  str_replace(str_replace(untagged, <<"*", "*">>, <<>>), <<"*">>, <<>>)

\* lines 709-711
FormatQuestion(quiz_question) ==
    LET question == QuizHeading \o quiz_question
    IN  IF CharLen(question) > QuestionCap
        THEN TakeChars(question, QuestionCap - 3) \o Dots ELSE question

\* the mutant of TruncateOption: the option is handed over in full
TruncateOptionNever(clean_option) == clean_option

\* lines 720-721
TruncateOption(clean_option) ==
    IF CharLen(clean_option) > OptionCap
    THEN TakeChars(clean_option, OptionCap - 3) \o Dots ELSE clean_option

\* lines 717-718 and 725-726
CleanOption(option) == Strip(CollapseSpacesFrom(SubMarkupFrom(option, 1), 1))

\* lines 727-728
TruncateExplanation(explanation) ==
    IF CharLen(explanation) > ExplanationCap
    THEN TakeChars(explanation, ExplanationCap - 3) \o Dots ELSE explanation

\* lines 701-728: the question, options and explanation of the quiz
PreparedQuiz(lesson) ==
    [question |-> FormatQuestion(CleanQuestion(lesson.quiz_question)),
     options |-> [k \in 1..Len(lesson.quiz_options) |->
                     TruncateOption(CleanOption(lesson.quiz_options[k]))],
     explanation |-> TruncateExplanation(CleanOption(lesson.explanation))]

\* the mutant of JoinPoints: the points follow each other without a separator
RECURSIVE JoinPointsBare(_)
JoinPointsBare(points) ==
    IF points = <<>> THEN <<>> ELSE Head(points) \o JoinPointsBare(Tail(points))

\* lines 493-499 and 508-514: the points with "\n\n" between them
RECURSIVE JoinPoints(_)
JoinPoints(points) ==
    IF points = <<>> THEN <<>>
    ELSE IF Len(points) = 1 THEN points[1]
    ELSE points[1] \o Str(<<"\n", "\n">>) \o JoinPoints(Tail(points))

Quotes == {"'", "\""}

NoLiteral == [ok |-> FALSE, from |-> 0, to |-> 0, next |-> 0]

\* the string literal that opens with the quote at item i: its characters are
\* from..to and the scan goes on at next. Three quotes open a literal that
\* ends at the next three; one quote opens a literal that ends at the next
\* quote of the line.
StringLiteral(s, i) ==
    LET q == s[i].c
        closings3 == {k \in (i + 3)..(Len(s) - 2) : StartsAt(s, k, <<q, q, q>>)}
        closings == {j \in (i + 1)..Len(s) : s[j].c = q}
        first3 == CHOOSE k \in closings3 : \A m \in closings3 : k <= m
        first == CHOOSE j \in closings : \A m \in closings : j <= m
    IN  IF StartsAt(s, i, <<q, q, q>>)
        THEN IF closings3 = {} THEN NoLiteral
             ELSE [ok |-> TRUE, from |-> i + 3, to |-> first3 - 1, next |-> first3 + 3]
        ELSE IF closings = {} \/ \E k \in (i + 1)..(first - 1) : s[k].c = "\n"
        THEN NoLiteral
        ELSE [ok |-> TRUE, from |-> i + 1, to |-> first - 1, next |-> first + 1]

\* line 505: ast.literal_eval of "[" s "]" from item i of s on, for strings of
\* letters, quotes, commas, spaces and newlines. acc holds the elements read,
\* after is "open", "item" or "comma". Adjacent literals are one string; a
\* comma may follow the last element; a bare word is not a literal.
RECURSIVE EvalItems(_, _, _, _)
EvalItems(s, i, acc, after) ==
    IF i > Len(s) THEN [ok |-> TRUE, value |-> acc]
    ELSE IF IsSpace(s[i]) THEN EvalItems(s, i + 1, acc, after)
    ELSE IF s[i].c = ","
    THEN IF after = "item" THEN EvalItems(s, i + 1, acc, "comma")
         ELSE [ok |-> FALSE, value |-> <<>>]
    ELSE IF s[i].c \in Quotes
    THEN LET lit == StringLiteral(s, i)
             str == SubSeq(s, lit.from, lit.to)
         IN  IF ~lit.ok THEN [ok |-> FALSE, value |-> <<>>]
             ELSE IF after = "item"
             THEN EvalItems(s, lit.next,
                            [acc EXCEPT ![Len(acc)] = @ \o str], "item")
             ELSE EvalItems(s, lit.next, Append(acc, str), "item")
    ELSE [ok |-> FALSE, value |-> <<>>]

\* line 502: content.startswith('[') and content.endswith(']')
LooksLikeList(text) ==
    text # <<>> /\ text[1].c = "[" /\ text[Len(text)].c = "]"

\* line 519: the brackets are cut off, "', '" becomes a blank line and the
\* remaining apostrophes go
StripListSyntax(text) ==
    str_replace(str_replace(SubSeq(text, 2, Len(text) - 1),
                            <<"'", ",", " ", "'">>, Str(<<"\n", "\n">>)),
                <<"'">>, <<>>)

\* lines 487-521: content as one string
NormalizeContent(content) ==
    IF content.kind = "list" THEN JoinPoints(content.points)
    ELSE IF LooksLikeList(content.text)
    THEN LET parsed == EvalItems(SubSeq(content.text, 2, Len(content.text) - 1),
                                 1, <<>>, "open")
         IN  IF parsed.ok THEN JoinPoints(parsed.value)
             ELSE StripListSyntax(content.text)
    ELSE content.text

\* line 52: re.sub(r'\n{3,}', '\n\n', s) from item i on
RECURSIVE CollapseNewlinesFrom(_, _)
CollapseNewlinesFrom(s, i) ==
    IF i > Len(s) THEN <<>>
    ELSE IF StartsAt(s, i, <<"\n", "\n", "\n">>)
    THEN LET rest == {k \in i..Len(s) : \A m \in i..k : s[m].c = "\n"}
             last == CHOOSE k \in rest : \A m \in rest : k >= m
         IN  Str(<<"\n", "\n">>) \o CollapseNewlinesFrom(s, last + 1)
    ELSE <<s[i]>> \o CollapseNewlinesFrom(s, i + 1)

\* lines 37-55; the second replace of lines 46 and 47 finds nothing to replace
sanitize_html_for_telegram(text) ==
    IF text = <<>> THEN <<>>
    ELSE LET bold == str_replace(str_replace(text, <<"*", "*">>, Str(<<"<", "b", ">">>)),
                                 <<"*", "*">>, Str(<<"<", "/", "b", ">">>))
             italic == str_replace(str_replace(bold, <<"*">>, Str(<<"<", "i", ">">>)),
                                   <<"*">>, Str(<<"<", "/", "i", ">">>))
             lines == str_replace(str_replace(str_replace(italic,
                          Br, Str(<<"\n">>)),
                          <<"<", "b", "r", "/", ">">>, Str(<<"\n">>)),
                          <<"<", "b", "r", " ", "/", ">">>, Str(<<"\n">>))
         IN  CollapseNewlinesFrom(lines, 1)

\* lines 523-531: the sanitized content, with a newline in front
LessonContent(body) ==
    LET content == sanitize_html_for_telegram(body)
    IN  IF content # <<>> /\ content[1].c = "\n" THEN content
        ELSE Str(<<"\n">>) \o content

\* lines 485 and 534; "@" stands for the emoji
MessageTitle(title) ==
    Str(<<"@", " ", "<", "b", ">">>) \o str_replace(title, <<"*">>, <<>>)
        \o Str(<<"<", "/", "b", ">", " ", "@", "\n", "\n">>)

\* lines 535-538; "=" stands for the character of the rule
MessageContent(content) ==
    content \o Str(<<"\n", "\n">>) \o <<[c |-> "=", n |-> RuleLen]>>
            \o Str(<<"\n", "\n">>)

\* lines 541-543; "@" stands for the emoji, the credit has three letters
Attribution(image) ==
    IF image = "credited"
    THEN Str(<<"@", " ", "<", "i", ">">>) \o Pad(3)
             \o Str(<<"<", "/", "i", ">", "\n", "\n">>)
    ELSE <<>>

\* lines 546-557, and 565-581 or 679-699 when every send succeeds and no text
\* is longer than 4000 characters
EmittedTexts(title, body, image) ==
    LET heading == MessageTitle(title)
        below == MessageContent(LessonContent(body))
        attribution == Attribution(image)
        whole == heading \o below \o attribution
    IN  IF image = "none" THEN <<heading \o below>>
        ELSE IF CharLen(whole) <= CaptionLimit THEN <<whole>>
        ELSE <<heading, below \o attribution>>

\* send_lesson from line 484 to the sends of the lesson
FormatLesson ==
    /\ dlv.pc = "idle"
    /\ LET body == NormalizeContent(dlv.lesson.content)
       IN  dlv' = [dlv EXCEPT !.pc = "sent", !.body = body,
                              !.emitted = EmittedTexts(dlv.lesson.title, body, dlv.image)]
    /\ UNCHANGED <<acqVars, usr, img, quiz, sched>>

\* send_lesson from line 701 to the send_poll call of line 732
PrepareQuiz ==
    /\ dlv.pc = "idle"
    /\ dlv' = [dlv EXCEPT !.pc = "quiz", !.poll = PreparedQuiz(dlv.lesson)]
    /\ UNCHANGED <<acqVars, usr, img, quiz, sched>>

(***************************************************************************)
(* Recipient history: persistence.user_history (persistence.py 218-282),   *)
(* its Supabase counterpart (database.py 253-345) and the subject          *)
(* selection of send_lesson (handlers.py 354-365, 448-482). Themes are     *)
(* numbered; a summary is [n, empty]: the number of the update that wrote  *)
(* it, and whether its text is the empty string.                           *)
(*   usr.supabase  settings.ENABLE_SUPABASE, the database answering        *)
(*   usr.history   recipient -> [recent_themes, recent_lessons]            *)
(*   usr.stamp     recipient -> theme -> number of the last update that    *)
(*                 named the theme (0: never)                              *)
(*   usr.nupd      updates made so far                                     *)
(*   usr.nirr      updates so far that re-used a listed theme, carried an  *)
(*                 empty summary, or went to the second recipient          *)
(*   usr.last      the last send_lesson call: [user, override, before,     *)
(*                 theme, delivered, after]                                *)
(* The on-demand trigger, next_lesson_command (handlers.py 166-246):       *)
(*   usr.last_nextlesson_request  user -> context.user_data entry (0: no   *)
(*                 entry)                                                  *)
(*   usr.subscribed  persistence.get_subscribers()                         *)
(*   usr.requests  the requests handled: [user, at, accepted, sent], at    *)
(*                 the value of time.time(), sent: send_lesson was called  *)
(***************************************************************************)
HUsers == {1, 2}
MaxRecentThemes == 10
MaxRecentLessons == 5
AllThemes == 1..(MaxRecentThemes + 1)

\* settings.py 96-236: the catalog
UI_UX_THEMES == [i \in 1..NumThemes |-> i]

NoHistory == [recent_themes |-> <<>>, recent_lessons |-> <<>>]

\* seq[:n]
Take(seq, n) == SubSeq(seq, 1, IF Len(seq) < n THEN Len(seq) ELSE n)

\* list.remove(x): the first occurrence goes
RemoveFirst(seq, x) ==
    LET k == CHOOSE i \in 1..Len(seq) : seq[i] = x /\ \A j \in 1..(i - 1) : seq[j] # x
    IN  SubSeq(seq, 1, k - 1) \o SubSeq(seq, k + 1, Len(seq))

\* the mutant of TruncateThemes: the list is not cut
TruncateNever(seq) == seq

\* persistence.py 273, database.py 317: recent_themes[:10]
TruncateThemes(seq) == Take(seq, MaxRecentThemes)

\* persistence.py 268-278 (supabase FALSE) and database.py 313-321 (TRUE)
update_user_history(h, theme, message, supabase) ==
    LET rest == IF theme \in Range(h.recent_themes)
                THEN RemoveFirst(h.recent_themes, theme)
                ELSE h.recent_themes
        listed == supabase \/ ~message.empty
    IN  [recent_themes |-> TruncateThemes(<<theme>> \o rest),
         recent_lessons |-> IF listed
                            THEN Take(<<message>> \o h.recent_lessons, MaxRecentLessons)
                            ELSE h.recent_lessons]

\* the mutant of available_themes: the history of the recipient is ignored
available_themes_all(recent_themes) == Range(UI_UX_THEMES)

\* handlers.py 361-363
available_themes(recent_themes) ==
    LET unused == {theme \in Range(UI_UX_THEMES) : theme \notin Range(recent_themes)}
    IN  IF unused = {} THEN Range(UI_UX_THEMES) ELSE unused

NoSend == [user |-> 0, override |-> 0, before |-> NoHistory, theme |-> 0,
           delivered |-> FALSE, after |-> NoHistory]

\* the users of the on-demand trigger; user 3 is an administrator
CUsers == {1, 2, 3}
ADMIN_USER_IDS == {3}
NEXTLESSON_COOLDOWN == 3600

\* time.time() when the model's clock shows t seconds since start-up
time_time(t) == 1700000000 + t

\* the mutant of CooldownActive: no request is inside the window
CooldownActiveNever(last_request, t) == FALSE

\* handlers.py 175: now - last_request < cooldown
CooldownActive(last_request, t) == t - last_request < NEXTLESSON_COOLDOWN

IdleUsr ==
    [supabase |-> FALSE, history |-> [u \in HUsers |-> NoHistory],
     stamp |-> [u \in HUsers |-> [t \in AllThemes |-> 0]], nupd |-> 0, nirr |-> 0,
     last |-> NoSend, last_nextlesson_request |-> [u \in CUsers |-> 0],
     subscribed |-> {}, requests |-> <<>>]

\* next_lesson_command for user u: lines 170-198 run without an await, so
\* the test and the update of last_nextlesson_request are one step
NextLessonCommand(u) ==
    LET t == time_time(now)
        limited == u \notin ADMIN_USER_IDS
        rejected == limited /\ CooldownActive(usr.last_nextlesson_request[u], t)
        sent == ~rejected /\ (u \in usr.subscribed \/ u \in ADMIN_USER_IDS)
    IN  /\ Len(usr.requests) < MaxRequests
        /\ usr' = [usr EXCEPT
                     !.last_nextlesson_request[u] =
                         IF limited /\ ~rejected THEN t ELSE @,
                     !.requests = Append(@, [user |-> u, at |-> t,
                                             accepted |-> ~rejected, sent |-> sent])]
        /\ UNCHANGED <<acqVars, img, quiz, sched, dlv>>

\* one call of persistence.update_user_history
UpdateHistory(u, theme, message_empty) ==
    LET n == usr.nupd + 1
        irregular == u # 1 \/ message_empty \/ theme \in Range(usr.history[u].recent_themes)
    IN  /\ usr.nupd < MaxUpdates
        /\ irregular => usr.nirr < MaxIrregular
        /\ usr' = [usr EXCEPT
                     !.history[u] = update_user_history(@, theme,
                                                        [n |-> n, empty |-> message_empty],
                                                        usr.supabase),
                     !.stamp[u][theme] = n,
                     !.nupd = n,
                     !.nirr = IF irregular THEN @ + 1 ELSE @]
        /\ UNCHANGED <<acqVars, img, quiz, sched, dlv>>

\* send_lesson for recipient u, handlers.py 354-365 (subject), 482 (history)
\* and 559-699 (delivered: did a send of the lesson succeed); override 0
\* stands for no theme argument
SendLessonTo(u, override, theme, delivered) ==
    LET n == usr.nupd + 1
        before == usr.history[u]
        after == update_user_history(before, theme, [n |-> n, empty |-> FALSE],
                                     usr.supabase)
    IN  /\ usr.nupd < MaxUpdates
        /\ IF override = 0 THEN theme \in available_themes(before.recent_themes)
           ELSE theme = override
        /\ usr' = [usr EXCEPT
                     !.history[u] = after,
                     !.stamp[u][theme] = n,
                     !.nupd = n,
                     !.last = [user |-> u, override |-> override, before |-> before,
                               theme |-> theme, delivered |-> delivered,
                               after |-> after]]
        /\ UNCHANGED <<acqVars, img, quiz, sched, dlv>>

(***************************************************************************)
(* The generator responses of the model.                                   *)
(***************************************************************************)
OptName(i) == "opt" \o ToString(i)
OptList(k) == [i \in 1..k |-> OptName(i)]
ExplList(k) == [i \in 1..k |-> "why" \o ToString(i)]

TitleVals == {VAbsent, VStr("T")}
ContentVals == {VAbsent, VStr("Body."), VList(<<"p1", "p2">>), VArrStr(<<"p1", "p2">>),
                VBadArr}
Content2Vals == {VAbsent, VStr("More.")}
QuestionVals == {VAbsent, VStr("Q?")}
OptionVals == {VAbsent, VStr("opt1, opt2")} \cup {VList(OptList(k)) : k \in 0..MaxOpts}
IndexVals == {VAbsent, VNull, VStr("1"), VStr("x")} \cup {VInt(k) : k \in -1..MaxOpts}
ExplanationVals == {VAbsent, VStr("E")}
OptExplVals == {VAbsent} \cup {VList(ExplList(k)) : k \in 0..MaxOpts}

TextDocs ==
    {Doc(js, ti, co, co2, qq, qo, ci, ex, oe) :
        js \in {"object", "invalid"}, ti \in TitleVals, co \in ContentVals,
        co2 \in Content2Vals, qq \in QuestionVals, qo \in OptionVals, ci \in IndexVals,
        ex \in ExplanationVals, oe \in OptExplVals}

Responses == {ApiError, ArrayDoc, ScalarDoc} \cup TextDocs

(***************************************************************************)
(* SpecParse: one subject, every response of the model, no clock. The      *)
(* first call meets an empty cache; later calls repeat the subject.        *)
(***************************************************************************)
ParseThemes == {"color theory ", "Typography"}

ParseInit ==
    AcqInit /\ img = IdleImg /\ quiz = IdleQuiz /\ sched = IdleSched /\ dlv = IdleDlv /\ usr = IdleUsr

ParseCall ==
    \E theme \in ParseThemes :
        /\ calls < MaxCalls
        /\ IF log = <<>> THEN TRUE ELSE theme = log[1].theme
        /\ Call(1, theme)

ParseApiReturn == pc[1] = "api" /\ \E r \in Responses : ApiReturn(1, r)

ParseNext == ParseCall \/ ParseApiReturn \/ Wake(1)

SpecParse == ParseInit /\ [][ParseNext]_vars

(***************************************************************************)
(* Claims about parsing and the shape of the returned lesson (SpecParse).  *)
(***************************************************************************)
HasRequiredFields(lesson) ==
    \A i \in 1..Len(RequiredFields) : lesson[RequiredFields[i]].t # "absent"

IndexInRange(lesson) ==
    /\ lesson.correct_option_index.t = "int"
    /\ lesson.quiz_options.t = "list"
    /\ 0 <= lesson.correct_option_index.n
    /\ lesson.correct_option_index.n < Len(lesson.quiz_options.xs)

ExplanationsAligned(lesson) ==
    /\ lesson.option_explanations.t = "list"
    /\ lesson.quiz_options.t = "list"
    /\ Len(lesson.option_explanations.xs) = Len(lesson.quiz_options.xs)

\* C1: generate_lesson_content never raises; whatever the generator does
\* (timeout, transport error, non-JSON text, JSON of the wrong shape), a call
\* that has ended has returned a lesson holding the six required fields.
C1_NeverRaisesReturnsLesson ==
    \A p \in Procs :
        /\ pc[p] # "raised"
        /\ pc[p] = "done" => HasRequiredFields(presult[p])

\* C1 witness: both attempts failed and the call returned the canned fallback
C1_Witness ==
    /\ pc[1] = "done"
    /\ ppath[1] = "fallback"
    /\ retry_count[1] = MaxRetries
    /\ HasRequiredFields(presult[1])

\* C8: for every well-formed generator output the lesson recovered by parsing
\* has 0 <= correct_option_index < len(quiz_options) and as many
\* option_explanations as quiz_options.
C8_WellFormedParsesToValidLesson ==
    \A p \in Procs :
        (pc[p] = "done" /\ ppath[p] \in {"strict", "regex"} /\ pseen[p].wf)
            => IndexInRange(presult[p]) /\ ExplanationsAligned(presult[p])

\* C32: whichever stage produced it, a lesson parsed from a generator
\* response never keeps an index outside its options: an index that is
\* negative or not below len(quiz_options) has become 0.
C32_OutOfRangeIndexBecomesZero ==
    \A p \in Procs :
        (pc[p] = "done" /\ ppath[p] \in {"strict", "regex"})
            => /\ presult[p].correct_option_index.t = "int"
               /\ \/ presult[p].correct_option_index.n = 0
                  \/ IndexInRange(presult[p])

\* C33: a lesson recovered from a response that failed the strict parse and
\* held two "content" keys carries the text of both occurrences, so its body
\* is neither the first occurrence alone nor the second alone.
C33_EveryContentOccurrenceKept ==
    \A p \in Procs :
        (pc[p] = "done" /\ ppath[p] \in {"strict", "regex"} /\ Len(pseen[p].occurrences) = 2)
            => /\ presult[p].content.t = "str"
               /\ \A i \in 1..2 : presult[p].content.s # pseen[p].occurrences[i]

\* C9: every lesson returned by generate_lesson_content, on any path, has an
\* option_explanations list as long as quiz_options.
C9_ExplanationsAlignedOnEveryPath ==
    \A p \in Procs : pc[p] = "done" => ExplanationsAligned(presult[p])

\* C10: for any malformed generator response (truncated JSON, duplicated key,
\* array-as-string body) parsing yields a lesson, never raises, and the lesson
\* has at least 2 quiz options.
C10_MalformedStillTwoOptions ==
    \A p \in Procs :
        /\ pc[p] # "raised"
        /\ (pc[p] = "done" /\ pseen[p].mal)
              => /\ HasRequiredFields(presult[p])
                 /\ presult[p].quiz_options.t = "list"
                 /\ Len(presult[p].quiz_options.xs) >= 2

\* C17: when the generator response carries no option_explanations, the
\* returned lesson has one option_explanations entry per quiz option; the
\* entry at correct_option_index is the lesson's explanation text and every
\* other entry is the generic filler for the subject.
C17_SynthesizedExplanationsAligned ==
    \A p \in Procs :
        (pc[p] = "done" /\ ppath[p] \in {"strict", "regex"} /\ pseen[p].noexpl)
            => LET lesson == presult[p]
                   oe == lesson.option_explanations
               IN  /\ oe.t = "list"
                   /\ lesson.quiz_options.t = "list"
                   /\ Len(oe.xs) = Len(lesson.quiz_options.xs)
                   /\ \A i \in 1..Len(oe.xs) :
                         oe.xs[i] = IF i - 1 = lesson.correct_option_index.n
                                    THEN lesson.explanation.s
                                    ELSE Filler(ptheme[p])

\* C17 witness: options [opt1, opt2], correct index 1, explanation E and no
\* option_explanations give [filler, E]
C17_Witness ==
    /\ pc[1] = "done"
    /\ ppath[1] = "strict"
    /\ pseen[1].noexpl
    /\ presult[1].quiz_options = VList(OptList(2))
    /\ presult[1].correct_option_index = VInt(1)
    /\ presult[1].explanation = VStr("E")
    /\ presult[1].option_explanations = VList(<<Filler(ptheme[1]), "E">>)

(***************************************************************************)
(* SpecCache: calls made one after the other, with a clock, over three     *)
(* subjects (two of them sharing a cache key) and a few responses: a       *)
(* failing call, a well-formed lesson, a truncated text.                   *)
(***************************************************************************)
GoodDoc == Doc("object", VStr("T"), VStr("Body."), VAbsent, VStr("Q?"), VList(OptList(2)),
               VInt(1), VStr("E"), VAbsent)
TruncDoc == Doc("invalid", VStr("T"), VList(<<"p1", "p2">>), VAbsent, VStr("Q?"),
                VList(OptList(1)), VInt(0), VAbsent, VAbsent)
CacheResponses == {ApiError, GoodDoc, TruncDoc}

CacheInit ==
    AcqInit /\ img = IdleImg /\ quiz = IdleQuiz /\ sched = IdleSched /\ dlv = IdleDlv /\ usr = IdleUsr

CacheCall == \E theme \in Themes : calls < MaxCalls /\ Call(1, theme)

CacheApiReturn == \E r \in CacheResponses : ApiReturn(1, r)

CacheTick == \E dt \in TickSteps : Tick(dt)

CacheNext == CacheCall \/ CacheApiReturn \/ Wake(1) \/ CacheTick

SpecCache == CacheInit /\ [][CacheNext]_vars

\* C2 (as claimed): two calls for the same subject within the TTL window return
\* the identical lesson and together trigger at most one chat-completion call.
C2_AtMostOneGenerationCall ==
    \A i, j \in 1..Len(log) :
        (i < j /\ log[i].theme = log[j].theme /\ log[j].start - log[i].end < CacheTTL)
            => /\ log[j].lesson = log[i].lesson
               /\ log[i].gens + log[j].gens <= 1

\* C2 (amended): when a call generated its lesson (or fell back to the canned
\* one) rather than being served from the cache, a second call for the same
\* subject made less than the TTL after the first returned returns the identical
\* lesson and triggers no chat-completion call; the first call triggers at most
\* max_retries of them. A cache hit does not renew the entry.
C2_SecondCallHitsCache ==
    \A i, j \in 1..Len(log) :
        (/\ i < j
         /\ log[i].theme = log[j].theme
         /\ log[i].path # "cache"
         /\ log[j].start - log[i].end < CacheTTL)
            => /\ log[j].lesson = log[i].lesson
               /\ log[j].gens = 0
               /\ log[i].gens <= MaxRetries

\* C2 witness: a generated lesson is served again from the cache, the clock
\* having advanced in between
C2_Witness ==
    /\ Len(log) >= 2
    /\ log[1].theme = log[2].theme
    /\ log[1].path = "strict"
    /\ log[2].path = "cache"
    /\ log[2].start > log[1].end
    /\ log[2].lesson = log[1].lesson

\* the paths on which a call writes its lesson to the cache (lines 194, 268, 287)
StoringPaths == {"strict", "regex", "fallback"}

SameKey(i, j) == ThemeLower(log[i].theme) = ThemeLower(log[j].theme)

\* the completed calls before call j that wrote the cache entry of j's subject
StoresBefore(j) ==
    {i \in 1..(j - 1) : SameKey(i, j) /\ log[i].path \in StoringPaths}

Latest(S) == CHOOSE i \in S : \A k \in S : k <= i

\* C13: when every generation attempt of a call fails, the call returns the
\* canned fallback lesson of its subject after max_retries attempts and stores
\* it, so that a later call for the same subject made less than the TTL after
\* it returns that lesson from the cache without any generation call.
C13_FallbackIsCached ==
    \A i \in 1..Len(log) :
        log[i].path = "fallback" =>
            /\ log[i].lesson = get_fallback_lesson(log[i].theme)
            /\ log[i].gens = MaxRetries
            /\ \A j \in 1..Len(log) :
                  (i < j /\ SameKey(i, j) /\ log[j].start - log[i].end < CacheTTL)
                      => /\ log[j].path = "cache"
                         /\ log[j].gens = 0
                         /\ log[j].lesson = log[i].lesson

\* C13 witness: both attempts of the first call failed, and a later call for
\* the same subject, another spelling of it, is served the stored fallback
C13_Witness ==
    /\ Len(log) >= 2
    /\ log[1].path = "fallback"
    /\ log[1].theme = "color theory "
    /\ log[2].theme = "Color Theory"
    /\ log[2].start > log[1].end
    /\ log[2].path = "cache"
    /\ log[2].gens = 0
    /\ log[2].lesson = get_fallback_lesson("color theory ")

\* C14: a call is served from the cache exactly when the entry of its subject
\* was written less than the TTL (86400 s) before the call; when the entry is
\* TTL old or older (or there is none) the call goes on to generation, or to
\* the disabled-mode fallback, and does not return the stored lesson as a hit.
C14_ServedOnlyWhileFresh ==
    \A j \in 1..Len(log) :
        IF StoresBefore(j) = {}
        THEN log[j].path # "cache"
        ELSE LET i == Latest(StoresBefore(j))
             IN  IF log[j].start - log[i].end < CacheTTL
                 THEN log[j].path = "cache" /\ log[j].lesson = log[i].lesson
                 ELSE /\ log[j].path # "cache"
                      /\ log[j].path = "disabled" <=> disable_openai
                      /\ log[j].path \in StoringPaths => log[j].gens >= 1

\* C14 witness: a call made exactly TTL seconds after the entry was written
\* goes to the generator again
C14_Witness ==
    /\ Len(log) >= 2
    /\ SameKey(1, 2)
    /\ log[1].path = "strict"
    /\ log[2].start - log[1].end = CacheTTL
    /\ log[2].path = "strict"
    /\ log[2].gens = 1

\* C16: with generation disabled (DISABLE_OPENAI), a call that is not served
\* from the cache returns the canned fallback lesson of its subject without
\* any generation call, and two calls for the same subject return the same
\* lesson.
C16_DisabledReturnsFallback ==
    disable_openai =>
        /\ \A p \in Procs : pc[p] \notin {"api", "sleep"}
        /\ \A j \in 1..Len(log) :
              log[j].path # "cache" =>
                  /\ log[j].path = "disabled"
                  /\ log[j].gens = 0
                  /\ log[j].lesson = get_fallback_lesson(log[j].theme)
                  /\ \A i \in 1..Len(log) :
                        (log[i].theme = log[j].theme /\ log[i].path # "cache")
                            => log[i].lesson = log[j].lesson

\* C16 witness: two calls for one subject, generation disabled, the clock
\* having advanced in between
C16_Witness ==
    /\ disable_openai
    /\ Len(log) >= 2
    /\ log[1].theme = log[2].theme
    /\ log[1].path = "disabled"
    /\ log[2].path = "disabled"
    /\ log[2].start > log[1].end
    /\ log[2].lesson = get_fallback_lesson(log[1].theme)

(***************************************************************************)
(* SpecRetry: the calls of SpecCache without the clock, under the fairness *)
(* the event loop gives: an awaited chat-completion call ends (the client  *)
(* has a request timeout, lines 43 and 119) and asyncio.sleep(0.5) ends.   *)
(***************************************************************************)
RetryNext == CacheCall \/ CacheApiReturn \/ Wake(1)

SpecRetry ==
    /\ CacheInit
    /\ [][RetryNext]_vars
    /\ WF_vars(CacheApiReturn)
    /\ WF_vars(Wake(1))

AttemptsBounded ==
    \A p \in Procs :
        /\ pgens[p] <= MaxRetries
        /\ retry_count[p] <= MaxRetries
        /\ pc[p] = "sleep" => retry_count[p] < MaxRetries
        /\ (pc[p] = "done" /\ ppath[p] = "fallback")
              => pgens[p] = MaxRetries /\ retry_count[p] = MaxRetries

\* C15: a call of generate_lesson_content issues at most max_retries (2)
\* generation calls and always ends: a call that is awaiting the generator or
\* sleeping between attempts eventually returns, and after the last failed
\* attempt it returns the fallback without another attempt.
C15_AtMostMaxRetriesAndTerminates ==
    /\ []AttemptsBounded
    /\ \A p \in Procs : (pc[p] \in {"api", "sleep"}) ~> (pc[p] = "done")

\* C15 witness: the second attempt has failed and the call has returned the
\* fallback after exactly max_retries generation calls
C15_Witness ==
    /\ pc[1] = "done"
    /\ ppath[1] = "fallback"
    /\ pgens[1] = MaxRetries
    /\ retry_count[1] = MaxRetries
    /\ log # <<>>
    /\ log[Len(log)].gens = MaxRetries


ImgInit ==
    /\ AcqInit
    /\ disable_openai = FALSE
    /\ quiz = IdleQuiz
    /\ sched = IdleSched
    /\ dlv = IdleDlv /\ usr = IdleUsr
    /\ \E k \in BOOLEAN, d \in Dirs : img = [IdleImg EXCEPT !.key = k, !.dir = d]

ImgUnsplashReturn == \E o \in UnsplashOutcomes : UnsplashReturn(o)

ImgDirChange == \E d \in Dirs : DirChange(d)

ImgNext == ImgCall \/ ImgUnsplashReturn \/ ImgDirChange

SpecImage == ImgInit /\ [][ImgNext]_vars

Strategies == <<"unsplash", "local">>
StrategyRank(name) == IF name = "unsplash" THEN 1 ELSE 2

\* C7: get_image_for_lesson tries its strategies in their fixed order and stops
\* at the first one that yields an image: in every completed call the invoked
\* strategies are in chain order without repetition, every strategy before the
\* last invoked one yielded nothing, and the result is what the last one yielded.
C7_ChainOrderShortCircuit ==
    \A c \in 1..Len(img.done) :
        LET call == img.done[c]
            n == Len(call.invoked)
        IN  /\ n >= 1
            /\ Len(call.yields) = n
            /\ \A i, j \in 1..n :
                   i < j => StrategyRank(call.invoked[i]) < StrategyRank(call.invoked[j])
            /\ \A i \in 1..(n - 1) : call.yields[i] = NoImage
            /\ call.result = call.yields[n]
            /\ (call.result = NoImage) => call.invoked[n] = "local"

\* C7 witness: Unsplash was tried first and failed, and the local strategy
\* supplied the image; a later call got its image from Unsplash, with the local
\* strategy not invoked
C7_Witness ==
    /\ Len(img.done) >= 2
    /\ img.done[1].invoked = <<"unsplash", "local">>
    /\ img.done[1].yields[1] = NoImage
    /\ img.done[1].result.kind = "file"
    /\ img.done[2].invoked = <<"unsplash">>
    /\ img.done[2].result.kind = "url"

ReadmeOnly == [listable |-> TRUE, files |-> {[stem |-> "README", ext |-> ".txt"]}]

\* C18: a failing image strategy (request error, non-200 status, empty result
\* set, missing API key, raised exception, unreadable directory) does not
\* raise out of get_image_for_lesson: no call ends with an exception, and a
\* call whose Unsplash strategy yielded nothing went on to the local strategy
\* and returned what that one yielded.
C18_StrategyFailureNeverRaises ==
    /\ img.pc # "raised"
    /\ \A c \in 1..Len(img.done) :
          LET call == img.done[c]
          IN  (call.invoked[1] = "unsplash" /\ call.yields[1] = NoImage)
                 => /\ call.invoked = <<"unsplash", "local">>
                    /\ call.result = call.yields[2]
                    /\ call.result.kind \in {"none", "file"}
    /\ (img.pc = "done" /\ ~img.key) => img.invoked = <<"local">>

\* C18 witness: both strategies failed, the local one on a directory that
\* cannot be listed, and the call returned no image
C18_Witness ==
    /\ img.pc = "done"
    /\ img.done # <<>>
    /\ img.done[1].invoked = <<"unsplash", "local">>
    /\ img.done[1].yields = <<NoImage, NoImage>>
    /\ ~img.done[1].dir.listable
    /\ img.done[1].result = NoImage

\* C19 (as claimed): the local strategy returns an image whenever the fallback
\* directory contains at least one file, and none only when it is empty.
C19_ImageWheneverAnyFile ==
    \A c \in 1..Len(img.done) :
        LET call == img.done[c]
        IN  call.invoked[Len(call.invoked)] = "local"
               => (call.result = NoImage <=> call.dir.files = {})

\* C19 (amended): the local strategy returns one of the directory's files with
\* an image extension (.jpg, .jpeg, .png, .gif, in any letter case) whenever
\* there is one, and none when the directory holds no such file (it is empty,
\* holds only other files such as README.txt, or cannot be listed).
C19_ImageWheneverAnyImageFile ==
    \A c \in 1..Len(img.done) :
        LET call == img.done[c]
            images == IF call.dir.listable THEN fallback_images(call.dir) ELSE {}
        IN  call.invoked[Len(call.invoked)] = "local"
               => /\ call.result = NoImage <=> images = {}
                  /\ images # {} => \E f \in images : call.result = FileImage(f)

\* C19 witness: the directory holding only README.txt yields no image; once an
\* image file is added next to it, the next call returns that file
C19_Witness ==
    /\ Len(img.done) >= 2
    /\ img.done[1].dir = ReadmeOnly
    /\ img.done[1].result = NoImage
    /\ img.done[2].dir.files = ReadmeOnly.files \cup {[stem |-> "B", ext |-> ".PNG"]}
    /\ img.done[2].invoked[Len(img.done[2].invoked)] = "local"
    /\ img.done[2].result = FileImage([stem |-> "B", ext |-> ".PNG"])

(***************************************************************************)
(* SpecQuizSeq: answer events handled one after the other.                 *)
(* SpecQuiz: two handlers running concurrently.                            *)
(***************************************************************************)
QuizInit ==
    /\ AcqInit
    /\ disable_openai = FALSE
    /\ img = IdleImg
    /\ quiz = IdleQuiz
    /\ sched = IdleSched
    /\ dlv = IdleDlv /\ usr = IdleUsr

QuizCreate == \E poll \in PollIds, nexpl \in ExplCounts : CreateQuiz(poll, Session(nexpl))

QuizAnswer == \E h \in Handlers, poll \in PollIds, sel \in Selections : PollAnswer(h, poll, sel)

QuizAnswerSeq ==
    \E h \in Handlers, poll \in PollIds, sel \in Selections :
        /\ \A g \in Handlers : ~InFlight(g)
        /\ PollAnswer(h, poll, sel)

QuizSendReturn == \E h \in Handlers, ok \in BOOLEAN : SendReturn(h, ok)

QuizSend2Return == \E h \in Handlers, ok \in BOOLEAN : Send2Return(h, ok)

QuizSeqNext == QuizCreate \/ QuizAnswerSeq \/ QuizSendReturn \/ QuizSend2Return

QuizNext == QuizCreate \/ QuizAnswer \/ QuizSendReturn \/ QuizSend2Return

SpecQuizSeq == QuizInit /\ [][QuizSeqNext]_vars

SpecQuiz == QuizInit /\ [][QuizNext]_vars

\* C5: a quiz session is consumed and deleted exactly once: the first answer
\* event handled for a tracked poll id emits one feedback message and removes
\* the entry from active_quizzes, every later answer event for that poll id is
\* a no-op, and the session never exists once its first answer was handled.
C5_ConsumedExactlyOnce ==
    \A k \in 1..Len(quiz.runs) :
        LET r == quiz.runs[k]
            first == \A j \in 1..(k - 1) : quiz.runs[j].poll # r.poll
        IN  /\ ~quiz.active_quizzes[r.poll].has
            /\ first => r.found /\ r.feedback + r.thanks = 1 /\ ~r.tracked_after
            /\ ~first => ~r.found /\ r.feedback + r.thanks = 0

\* C6: when two on_poll_answer handlers for the same poll id run concurrently,
\* exactly one message is emitted for the poll: one run emits it and the other
\* run emits nothing.
C6_ExactlyOneWinner ==
    \A i, j \in 1..Len(quiz.runs) :
        LET a == quiz.runs[i]
            b == quiz.runs[j]
        IN  (i < j /\ a.poll = b.poll /\ a.ovl # 0 /\ a.ovl = b.ovl)
                => (a.feedback + a.thanks) + (b.feedback + b.thanks) = 1

(***************************************************************************)
(* SpecFeedback: answer events handled one after the other, for every      *)
(* session send_lesson can store, one open session at a time.              *)
(***************************************************************************)
\* poll ids are interchangeable: the transport hands out the next unused one;
\* a poll is sent once the previous one has been answered
FeedbackCreate ==
    /\ quiz.created # PollIds
    /\ \A p \in PollIds : ~Tracked(quiz.active_quizzes, p)
    /\ \E session \in Sessions : CreateQuiz(FreshPoll, session)

FeedbackNext == FeedbackCreate \/ QuizAnswerSeq \/ QuizSendReturn \/ QuizSend2Return

SpecFeedback == QuizInit /\ [][FeedbackNext]_vars

\* C26: while on_poll_answer awaits its feedback send, the explanation of the
\* message is the entry of option_explanations at the chosen index if there
\* is one, and otherwise the lesson's explanation, which has a sentence
\* naming the correct option in front exactly when the chosen index is not
\* the correct one.
C26_FeedbackSelection ==
    \A h \in Handlers :
        quiz.hpc[h] = "send" =>
            LET session == quiz.active_quizzes[quiz.hpoll[h]]
                e == quiz.hexpl[h]
            IN  IF e.sel < session.nexpl
                THEN e.source = "option" /\ e.prefix = "none"
                ELSE /\ e.source = "lesson"
                     /\ e.prefix = IF e.sel # session.correct
                                   THEN "correct option" ELSE "none"

(***************************************************************************)
(* SpecSched: scheduled batches, by either implementation, while users     *)
(* subscribe and unsubscribe.                                              *)
(***************************************************************************)
SchedInit ==
    /\ AcqInit
    /\ disable_openai = FALSE
    /\ img = IdleImg
    /\ quiz = IdleQuiz
    /\ dlv = IdleDlv /\ usr = IdleUsr
    /\ \E v \in {"scheduler", "bot"}, c \in BOOLEAN, subs \in SUBSET Users :
           sched = [IdleSched EXCEPT !.variant = v, !.channel = c, !.subscribers = subs]

\* the batch's lessons fit the caption
SchedEnvs ==
    [image : ImageKinds, long : {FALSE}, photo : BOOLEAN, rest : {TRUE},
     reupload : BOOLEAN, text : BOOLEAN, poll : BOOLEAN, polltext : BOOLEAN]

SchedChannelReturn == \E e \in SchedEnvs : ChannelReturn(e)

SchedSendLessonReturn == \E e \in SchedEnvs : SendLessonReturn(e)

SchedRecheckReturn == \E valid \in BOOLEAN : RecheckReturn(valid)

SchedSubscribe == \E u \in Users : Subscribe(u)

SchedUnsubscribe == \E u \in Users : Unsubscribe(u)

SchedNext ==
    \/ StartBatch
    \/ SchedChannelReturn
    \/ SchedSendLessonReturn
    \/ SchedRecheckReturn
    \/ SchedSubscribe
    \/ SchedUnsubscribe

SpecSched == SchedInit /\ [][SchedNext]_vars

LoopOver == sched.pc \in {"checking", "done"}

\* C3: in a batch in subscriber mode a delivery failure for one recipient never
\* aborts the batch: while the loop runs, the recipients up to the current one
\* have had exactly one send_lesson call each and the later ones none; once the
\* loop is over, every recipient of the list read at the start has had exactly
\* one call, and nobody else has had any.
C3_OneAttemptPerRecipient ==
    /\ sched.pc # "aborted"
    /\ sched.pc = "sending" =>
           \A k \in 1..Len(sched.snapshot) :
               sched.attempts[sched.snapshot[k]] = IF k <= sched.idx THEN 1 ELSE 0
    /\ LoopOver =>
           \A u \in Users :
               sched.attempts[u] = IF u \in Range(sched.snapshot) THEN 1 ELSE 0

\* C3 witness: the batch is over, the delivery to the first recipient failed,
\* the second recipient was served, and a user who subscribed during the batch
\* is not part of it
C3_Witness ==
    /\ sched.pc = "done"
    /\ ~sched.channel
    /\ Len(sched.snapshot) >= 2
    /\ sched.outcome[sched.snapshot[1]] = "failed"
    /\ sched.outcome[sched.snapshot[2]] = "delivered"
    /\ \A u \in Range(sched.snapshot) : sched.attempts[u] = 1
    /\ \E u \in sched.subscribers : u \notin Range(sched.snapshot)

\* C4: when the delivery to a recipient fails (image send, re-upload and
\* text-only fallback all fail), the scheduler records the recipient as failed
\* for the batch: the recipient is in failed_subscribers, is not counted in
\* success_count, and is submitted to the validity recheck.
C4_FailedDeliveryIsRecorded ==
    (LoopOver /\ ~sched.channel) =>
        /\ \A u \in Range(sched.snapshot) :
               sched.outcome[u] = "failed" =>
                   /\ u \in Range(sched.failed_subscribers)
                   /\ sched.pc = "done" => u \in sched.rechecked
        /\ sched.success_count <=
               Cardinality({u \in Range(sched.snapshot) : sched.outcome[u] # "failed"})

\* C25: in a batch a recipient is taken out of the subscribers only when its
\* delivery failed in this batch and the get_chat probe that followed failed
\* too; a recipient whose delivery succeeded, or whose probe succeeded, is not
\* taken out by the batch.
C25_RemovedOnlyAfterFailedProbe ==
    \A u \in Users :
        /\ u \in sched.removed =>
               /\ sched.outcome[u] = "failed"
               /\ u \in Range(sched.failed_subscribers)
               /\ sched.probe[u] = "invalid"
        /\ (sched.outcome[u] = "delivered" \/ sched.probe[u] = "valid") =>
               u \notin sched.removed

\* C25 witness: the batch is over; of two recipients whose delivery failed
\* the one whose probe failed is gone and the one whose probe succeeded stays
C25_Witness ==
    /\ sched.pc = "done"
    /\ \E u, v \in Range(sched.failed_subscribers) :
           /\ sched.probe[u] = "invalid" /\ u \in sched.removed
           /\ u \notin sched.subscribers
           /\ sched.probe[v] = "valid" /\ v \in sched.subscribers

(***************************************************************************)
(* SpecDeliver: send_lesson for one recipient, over lessons of several     *)
(* sizes, every image outcome and every transport environment.             *)
(***************************************************************************)
ParLens == {100, 950, 2900, 4100}
Bodies == UNION {[1..n -> ParLens] : n \in 1..MaxParas}
TitleLens == {10, 1000, 1012}
LessonImages == {UrlImage("https://u/1", "P"), FileImage([stem |-> "a", ext |-> ".jpg"])}

DeliverInit ==
    /\ AcqInit
    /\ disable_openai = FALSE
    /\ img = IdleImg
    /\ quiz = IdleQuiz
    /\ sched = IdleSched
    /\ dlv = IdleDlv /\ usr = IdleUsr

\* a send that is attempted only after another one failed is left succeeding
\* when that other one succeeds
DeliverEnvs == {e \in DlvEnvs : (e.photo => e.reupload) /\ (e.poll => e.polltext)}

\* the image the subsystem would return matters only when it returns one
DeliverSendLesson ==
    /\ dlv.pc = "idle"
    /\ \E title_len \in TitleLens, body \in Bodies, outcome \in ImageOutcomes,
          image \in LessonImages, e \in DeliverEnvs :
           /\ outcome = "returned" \/ image.kind = "url"
           /\ SendLesson(title_len, body, outcome, image, e)

DeliverNext == DeliverSendLesson

SpecDeliver == DeliverInit /\ [][DeliverNext]_vars

\* len() of the normalized body
BodyLen(body) == SumLen(BodyPieces(body)) - 1 + 2 * (Len(body) - 1)

\* the body pieces carried by the messages, in send order
RECURSIVE BodyPiecesSent(_)
BodyPiecesSent(msgs) ==
    IF msgs = <<>> THEN <<>>
    ELSE SelectSeq(Head(msgs).text, LAMBDA x : x.k = "body") \o BodyPiecesSent(Tail(msgs))

\* the pieces from position k on continue the body at paragraph i, offset off,
\* and end with its last character
RECURSIVE Reproduces(_, _, _, _, _)
Reproduces(pieces, k, paragraphs, i, off) ==
    IF k > Len(pieces) THEN i = Len(paragraphs) + 1 /\ off = 0
    ELSE /\ i <= Len(paragraphs)
         /\ pieces[k].i = i
         /\ pieces[k].from = off
         /\ pieces[k].to > off
         /\ pieces[k].to <= paragraphs[i].to
         /\ IF pieces[k].to = paragraphs[i].to
            THEN Reproduces(pieces, k + 1, paragraphs, i + 1, 0)
            ELSE Reproduces(pieces, k + 1, paragraphs, i, pieces[k].to)

Lossless(msgs, body) == Reproduces(BodyPiecesSent(msgs), 1, BodyPieces(body), 1, 0)

AllSendsSucceed(e) == e.photo /\ e.reupload /\ e.rest /\ e.plain /\ e.text

FitsCaption ==
    StrLen(TitleThen(dlv.title_len,
                     message_content(dlv.body, Len(dlv.image_data.attribution))))
        <= CaptionLimit

\* C12: with an image available (and the photo and continuation sends
\* accepted), a lesson that fits the caption ceiling is exactly one photo
\* message whose caption holds title, body and attribution; otherwise the photo
\* carries the title only and is followed by one or more text messages that
\* carry the body.
C12_OneCaptionOrTitleThenText ==
    (dlv.pc = "done" /\ dlv.image_data # NoImage /\ dlv.env.photo /\ dlv.env.rest)
        => LET msgs == dlv.sent.msgs
           IN  IF FitsCaption
               THEN /\ Len(msgs) = 1
                    /\ msgs[1].kind = "photo"
                    /\ msgs[1].text = TitleThen(dlv.title_len,
                                                message_content(dlv.body,
                                                    Len(dlv.image_data.attribution)))
               ELSE /\ Len(msgs) >= 2
                    /\ msgs[1].kind = "photo"
                    /\ msgs[1].text = message_title(dlv.title_len)
                    /\ \A m \in 2..Len(msgs) : msgs[m].kind = "text"
                    /\ Lossless(SubSeq(msgs, 2, Len(msgs)), dlv.body)

\* C12 witness: both cases are distinguished by the caption ceiling; here the
\* lesson does not fit and the photo is followed by a single text message
C12_Witness ==
    /\ dlv.pc = "done"
    /\ dlv.image_data.kind = "url"
    /\ dlv.env.photo /\ dlv.env.rest
    /\ ~FitsCaption
    /\ Len(dlv.sent.msgs) = 2
    /\ dlv.sent.msgs[1].text = message_title(dlv.title_len)
    /\ dlv.sent.msgs[2].kind = "text"

\* C20: when image resolution returns none, raises or times out, send_lesson
\* goes on without an image: no photo is sent, and provided the transport
\* accepts text messages the lesson text is delivered in full, and provided it
\* accepts the quiz (as a poll or as text) the quiz is delivered too.
C20_NoImageStillDelivers ==
    (dlv.pc = "done" /\ dlv.outcome # "returned")
        => /\ dlv.image_data = NoImage
           /\ \A m \in 1..Len(dlv.sent.msgs) : dlv.sent.msgs[m].kind = "text"
           /\ (dlv.env.text /\ (dlv.env.rest \/ dlv.env.plain))
                  => /\ Len(dlv.sent.msgs) >= 1
                     /\ dlv.sent.msgs[1].text[1] = TitlePiece(dlv.title_len)
                     /\ Lossless(dlv.sent.msgs, dlv.body)
           /\ (dlv.env.text /\ (dlv.env.poll \/ dlv.env.polltext))
                  => /\ dlv.sent.quiz # <<>>
                     /\ dlv.sent.ret = "lesson"

\* C20 witness: the image task timed out; the lesson went out as one text
\* message followed by the quiz poll
C20_Witness ==
    /\ dlv.pc = "done"
    /\ dlv.outcome = "timeout"
    /\ Len(dlv.sent.msgs) = 1
    /\ dlv.sent.msgs[1].kind = "text"
    /\ Lossless(dlv.sent.msgs, dlv.body)
    /\ dlv.sent.quiz = <<"poll">>
    /\ dlv.sent.ret = "lesson"

\* C21 (as claimed): when the image is sent by URL the steps tried are, in
\* order, the URL photo, the re-uploaded file, the text-only message, each one
\* only after the one before it failed; and a recipient for whom one of these
\* steps succeeds receives the lesson content.
C21_DowngradeOrderDeliversContent ==
    (dlv.pc = "done" /\ dlv.image_data.kind = "url")
        => /\ dlv.sent.tried \in {<<"url">>, <<"url", "upload">>, <<"url", "upload", "text">>}
           /\ dlv.env.photo /\ dlv.env.rest => dlv.sent.tried = <<"url">>
           /\ dlv.sent.delivered => Lossless(dlv.sent.msgs, dlv.body)

(***************************************************************************)
(* SpecHistory: update_user_history called again and again, over eleven    *)
(* themes. Themes are interchangeable, so a theme not used before is the   *)
(* next number; a listed theme is re-used from the head, the second place  *)
(* or the tail of the list.                                                *)
(* SpecRecipient: send_lesson calls over a catalog of NumThemes subjects.  *)
(***************************************************************************)
RecipientInit ==
    /\ AcqInit
    /\ disable_openai = FALSE
    /\ img = IdleImg
    /\ quiz = IdleQuiz
    /\ sched = IdleSched
    /\ dlv = IdleDlv
    /\ \E b \in BOOLEAN : usr = [IdleUsr EXCEPT !.supabase = b]

HistoryUpdate ==
    \E u \in HUsers, theme \in AllThemes, message_empty \in BOOLEAN :
        LET listed == usr.history[u].recent_themes
            used == {t \in AllThemes : usr.stamp[u][t] > 0}
        IN  /\ theme <= Cardinality(used) + 1
            /\ theme \in Range(listed)
                  => \E k \in {1, 2, Len(listed)} : k <= Len(listed) /\ listed[k] = theme
            /\ UpdateHistory(u, theme, message_empty)

HistoryNext == HistoryUpdate

SpecHistory == RecipientInit /\ [][HistoryNext]_vars

RecipientSend ==
    /\ usr.nupd < MaxSends
    /\ \E u \in HUsers, override \in {0} \cup Range(UI_UX_THEMES),
          theme \in Range(UI_UX_THEMES), delivered \in BOOLEAN :
           SendLessonTo(u, override, theme, delivered)

RecipientNext == RecipientSend

SpecRecipient == RecipientInit /\ [][RecipientNext]_vars

NoDuplicates(seq) == \A i, j \in 1..Len(seq) : i # j => seq[i] # seq[j]

\* C22: without a subject override send_lesson picks a catalog subject that
\* is not in the recipient's recent_themes; when every catalog subject is in
\* recent_themes it still picks a catalog subject.
C22_PicksUnusedSubjectOrResets ==
    (usr.last.user # 0 /\ usr.last.override = 0)
        => LET recent == Range(usr.last.before.recent_themes)
           IN  /\ usr.last.theme \in Range(UI_UX_THEMES)
               /\ ~(Range(UI_UX_THEMES) \subseteq recent) => usr.last.theme \notin recent

\* C22 witness: the recipient has received every catalog subject, and the next
\* call, made without an override, has picked a catalog subject again
C22_Witness ==
    /\ usr.last.user # 0
    /\ usr.last.override = 0
    /\ Range(UI_UX_THEMES) \subseteq Range(usr.last.before.recent_themes)
    /\ usr.last.theme \in Range(UI_UX_THEMES)
    /\ usr.last.after.recent_themes[1] = usr.last.theme

C24_FailedDeliveryLeavesHistory ==
    (usr.last.user # 0 /\ ~usr.last.delivered) => usr.last.after = usr.last.before

(***************************************************************************)
(* SpecCooldown: /nextlesson requests of three users, one of them an       *)
(* administrator, with a clock that advances by one second or by one       *)
(* second less than the cooldown.                                          *)
(***************************************************************************)
CooldownInit ==
    /\ AcqInit
    /\ disable_openai = FALSE
    /\ img = IdleImg
    /\ quiz = IdleQuiz
    /\ sched = IdleSched
    /\ dlv = IdleDlv
    /\ \E S \in SUBSET CUsers : usr = [IdleUsr EXCEPT !.subscribed = S]

CooldownRequest == \E u \in CUsers : NextLessonCommand(u)

CooldownTick == \E dt \in {1, NEXTLESSON_COOLDOWN - 1} : Tick(dt)

CooldownNext == CooldownRequest \/ CooldownTick

SpecCooldown == CooldownInit /\ [][CooldownNext]_vars

\* the accepted requests of the user of request j made before it
AcceptedBefore(j) ==
    {i \in 1..(j - 1) : usr.requests[i].user = usr.requests[j].user
                        /\ usr.requests[i].accepted}

\* C27: a /nextlesson request of a non-admin user is rejected, without a call
\* of send_lesson, exactly when it arrives less than NEXTLESSON_COOLDOWN
\* seconds after that user's last accepted request; rejected requests and the
\* requests of other users do not move the window, so two deliveries started
\* for one user are at least a cooldown apart.
C27_CooldownPerRecipient ==
    \A j \in 1..Len(usr.requests) :
        LET r == usr.requests[j]
        IN  /\ r.sent => r.accepted
            /\ r.user \notin ADMIN_USER_IDS =>
                  /\ r.accepted <=>
                        (AcceptedBefore(j) = {}
                         \/ r.at - usr.requests[Latest(AcceptedBefore(j))].at
                                >= NEXTLESSON_COOLDOWN)
                  /\ \A i \in 1..(j - 1) :
                        (usr.requests[i].user = r.user /\ usr.requests[i].sent /\ r.sent)
                            => r.at - usr.requests[i].at >= NEXTLESSON_COOLDOWN

\* C27 witness: a subscriber's request is accepted, the next one, one second
\* short of the cooldown, is rejected, and the one a second later is accepted
C27_Witness ==
    /\ Len(usr.requests) = 3
    /\ \A j \in 1..3 : usr.requests[j].user = 1
    /\ usr.requests[1].sent
    /\ usr.requests[2].at - usr.requests[1].at = NEXTLESSON_COOLDOWN - 1
    /\ ~usr.requests[2].accepted /\ ~usr.requests[2].sent
    /\ usr.requests[3].at - usr.requests[1].at = NEXTLESSON_COOLDOWN
    /\ usr.requests[3].sent

(***************************************************************************)
(* SpecQuizText: the quiz of send_lesson for texts made of up to MaxCore   *)
(* characters of markup, spaces and letters, before or after a run of      *)
(* letters that ends below, at or above the cap of the field.              *)
(***************************************************************************)
QuizChars == {"a", "<", ">", "*", " ", "\n"}

\* level 0: no further letters; 1: the text ends below the cap; 2: above it
PadLen(cap, level) == IF level = 0 THEN 0 ELSE IF level = 1 THEN cap - 2 ELSE cap + 1

QuizText(core, cap, level, front) ==
    IF front THEN Str(core) \o Pad(PadLen(cap, level))
    ELSE Pad(PadLen(cap, level)) \o Str(core)

QuizLesson(core, level, front) ==
    [quiz_question |-> QuizText(core, QuestionCap - Len(QuizHeading), level, front),
     quiz_options |-> <<QuizText(core, OptionCap, level, front), Pad(1)>>,
     explanation |-> QuizText(core, ExplanationCap, level, front)]

QuizTextInit ==
    /\ AcqInit
    /\ disable_openai = FALSE
    /\ img = IdleImg
    /\ quiz = IdleQuiz
    /\ sched = IdleSched
    /\ usr = IdleUsr
    /\ \E core \in SeqsUpTo(QuizChars, MaxCore), level \in 0..2, front \in BOOLEAN :
           dlv = [pc |-> "idle", lesson |-> QuizLesson(core, level, front),
                  poll |-> [question |-> <<>>, options |-> <<>>, explanation |-> <<>>]]

QuizTextNext == PrepareQuiz

SpecQuizText == QuizTextInit /\ [][QuizTextNext]_vars

\* the text holds a tag: a "<" with a ">" somewhere after it
HasTag(s) == \E i \in 1..Len(s) : TagEnd(s, i) # 0

EndsWithDots(s) == Len(s) >= 3 /\ SubSeq(s, Len(s) - 2, Len(s)) = Dots

\* the text is within the cap and holds no tag
Capped(s, cap) == CharLen(s) <= cap /\ ~HasTag(s)

\* C28: the quiz handed to the transport holds no markup tag and keeps the
\* caps: the question has at most 300 characters, each option at most 100 and
\* the explanation at most 200; a text that was cut ends with an ellipsis and
\* is as long as its cap.
C28_QuizWithinCaps ==
    dlv.pc = "quiz" =>
        /\ Capped(dlv.poll.question, QuestionCap)
        /\ \A k \in 1..Len(dlv.poll.options) : Capped(dlv.poll.options[k], OptionCap)
        /\ Capped(dlv.poll.explanation, ExplanationCap)
        /\ CharLen(QuizHeading \o CleanQuestion(dlv.lesson.quiz_question)) > QuestionCap =>
               /\ EndsWithDots(dlv.poll.question)
               /\ CharLen(dlv.poll.question) = QuestionCap
        /\ CharLen(CleanOption(dlv.lesson.quiz_options[1])) > OptionCap =>
               /\ EndsWithDots(dlv.poll.options[1])
               /\ CharLen(dlv.poll.options[1]) = OptionCap

\* C28 witness: a question, an option and an explanation with a tag and more
\* letters than the cap were cut to 300, 100 and 200 characters
C28_Witness ==
    /\ dlv.pc = "quiz"
    /\ HasTag(dlv.lesson.quiz_question)
    /\ HasTag(dlv.lesson.quiz_options[1])
    /\ CharLen(dlv.poll.question) = QuestionCap /\ EndsWithDots(dlv.poll.question)
    /\ CharLen(dlv.poll.options[1]) = OptionCap /\ EndsWithDots(dlv.poll.options[1])
    /\ CharLen(dlv.poll.explanation) = ExplanationCap /\ EndsWithDots(dlv.poll.explanation)

(***************************************************************************)
(* SpecLessonText: the lesson texts of send_lesson, for a body that is a   *)
(* string of letters, emphasis marks, spaces and newlines, short or longer *)
(* than a caption; a string in brackets; a list of points; or the text of  *)
(* such a list as Python or JSON writes it.                                *)
(***************************************************************************)
PlainChars == {"a", "*", "\n", " "}

LiteralChars == {"a", "'", "\"", ",", " "}

Points == {Str(c) : c \in SeqsUpTo({"a", "'"}, MaxPoints)}

PointLists == SeqsUpTo(Points, MaxPoints)

\* repr(point): in apostrophes, or in double quotes when it holds an apostrophe
PyQuote(point) ==
    IF \E i \in 1..Len(point) : point[i].c = "'"
    THEN Str(<<"\"">>) \o point \o Str(<<"\"">>)
    ELSE Str(<<"'">>) \o point \o Str(<<"'">>)

\* json.dumps(point)
JsonQuote(point) == Str(<<"\"">>) \o point \o Str(<<"\"">>)

\* str(points) and json.dumps(points): the elements with ", " between them
RECURSIVE Elements(_, _)
Elements(points, json) ==
    IF points = <<>> THEN <<>>
    ELSE (IF json THEN JsonQuote(Head(points)) ELSE PyQuote(Head(points)))
         \o (IF Len(points) > 1 THEN Str(<<",", " ">>) ELSE <<>>)
         \o Elements(Tail(points), json)

ListText(points, json) == Str(<<"[">>) \o Elements(points, json) \o Str(<<"]">>)

StrContent(text) == [kind |-> "str", text |-> text, points |-> <<>>, array |-> FALSE]

\* the body is a string holding the array points, as Python or JSON write it
ArrayContent(points, json) ==
    [kind |-> "str", text |-> ListText(points, json), points |-> points, array |-> TRUE]

ListContent(points) == [kind |-> "list", text |-> <<>>, points |-> points, array |-> FALSE]

Contents ==
    {StrContent(Str(core) \o Pad(level * CaptionLimit)) :
         core \in SeqsUpTo(PlainChars, MaxCore), level \in 0..1}
    \cup {StrContent(Str(<<"[">>) \o Str(core) \o Str(<<"]">>)) :
              core \in SeqsUpTo(LiteralChars, MaxCore)}
    \cup {ArrayContent(points, json) : points \in PointLists, json \in BOOLEAN}
    \cup {ListContent(points) : points \in PointLists}

LessonTextInit ==
    /\ AcqInit
    /\ disable_openai = FALSE
    /\ img = IdleImg
    /\ quiz = IdleQuiz
    /\ sched = IdleSched
    /\ usr = IdleUsr
    /\ \E content \in Contents, image \in {"none", "plain", "credited"},
          title \in {Pad(1), Str(<<"*">>) \o Pad(1)} :
           dlv = [pc |-> "idle", lesson |-> [title |-> title, content |-> content],
                  image |-> image, body |-> <<>>, emitted |-> <<>>]

LessonTextNext == FormatLesson

SpecLessonText == LessonTextInit /\ [][LessonTextNext]_vars

\* the characters of the points, in order, with two newlines after every
\* point but the last
BlankLineJoined(points) ==
    LET starts == [k \in 1..Len(points) |->
                      Cardinality({<<j, i>> \in (1..(k - 1)) \X (1..(MaxPoints + 2)) :
                                       i <= Len(points[j]) + 2})]
        total == IF points = <<>> THEN 0
                 ELSE starts[Len(points)] + Len(points[Len(points)])
    IN  [m \in 1..total |->
            LET k == CHOOSE j \in 1..Len(points) :
                         starts[j] < m /\ m <= starts[j] + Len(points[j]) + 2
            IN  IF m - starts[k] <= Len(points[k]) THEN points[k][m - starts[k]]
                ELSE Char("\n")]

HasBracket(s) == \E i \in 1..Len(s) : s[i].c \in {"[", "]"}

\* C29: a body that is a list of points, or a string holding the array of
\* them, becomes the points in their order with "\n\n" between consecutive
\* points; a string that is the literal of an array never keeps its brackets.
C29_PointsJoinedByBlankLine ==
    dlv.pc = "sent" =>
        LET content == dlv.lesson.content
        IN  /\ content.kind = "list" => dlv.body = BlankLineJoined(content.points)
            /\ content.array => dlv.body = BlankLineJoined(content.points)
            /\ (content.kind = "str" /\ LooksLikeList(content.text)
                /\ EvalItems(SubSeq(content.text, 2, Len(content.text) - 1),
                             1, <<>>, "open").ok)
                   => ~HasBracket(dlv.body)

\* C29 witness: the body was the text of an array of two points, one of them
\* with an apostrophe, and became the two points with a blank line between
C29_Witness ==
    /\ dlv.pc = "sent"
    /\ dlv.lesson.content.array
    /\ LET points == dlv.lesson.content.points
       IN  /\ Len(points) = 2
           /\ \E i \in 1..Len(points[1]) : points[1][i].c = "'"
           /\ points[2] # <<>>
           /\ dlv.body = points[1] \o Str(<<"\n", "\n">>) \o points[2]

\* three newlines in a row
HasNewlineRun(s) == \E i \in 1..Len(s) : StartsAt(s, i, <<"\n", "\n", "\n">>)

\* C30: no lesson text handed to the transport holds three or more newlines
\* in a row.
C30_NoTripleNewline ==
    dlv.pc = "sent" => \A k \in 1..Len(dlv.emitted) : ~HasNewlineRun(dlv.emitted[k])

\* how often the characters of pat occur in s
Occurrences(s, pat) == Cardinality({i \in 1..Len(s) : StartsAt(s, i, pat)})

\* C35: in every lesson text handed to the transport the emphasis markers
\* have become markup: as many "</b>" as "<b>", as many "</i>" as "<i>", and
\* no "*" is left.
C35_EmphasisBecomesBalancedMarkup ==
    dlv.pc = "sent" =>
        \A k \in 1..Len(dlv.emitted) :
            LET text == dlv.emitted[k]
            IN  /\ Occurrences(text, <<"<", "b", ">">>)
                       = Occurrences(text, <<"<", "/", "b", ">">>)
                /\ Occurrences(text, <<"<", "i", ">">>)
                       = Occurrences(text, <<"<", "/", "i", ">">>)
                /\ Occurrences(text, <<"*">>) = 0

(***************************************************************************)
(* SpecMisfire: the scheduler starts at midnight and wakes up on time or   *)
(* late: by a second, by the grace time, by a second more, by the eight    *)
(* hours between the two jobs, by a day, or by two days and five minutes.  *)
(***************************************************************************)
Lateness ==
    {0, 1, misfire_grace_time, misfire_grace_time + 1,
     FireTimeOfDay("evening_lesson") - FireTimeOfDay("morning_lesson"),
     DaySeconds, 2 * DaySeconds + 300}

MisfireInit ==
    /\ AcqInit
    /\ disable_openai = FALSE
    /\ img = IdleImg
    /\ quiz = IdleQuiz
    /\ dlv = IdleDlv
    /\ usr = IdleUsr
    /\ sched = [clock |-> 0, wakes |-> 0, runs |-> <<>>, missed |-> <<>>,
                next_run_time |-> [job \in LessonJobs |-> FireTimeOfDay(job)]]

\* the timer is set for the earliest next run time; the loop gets to it late
MisfireWakeUp ==
    \E late \in Lateness :
        LET earliest == CHOOSE t \in {sched.next_run_time[job] : job \in LessonJobs} :
                            \A job \in LessonJobs : t <= sched.next_run_time[job]
        IN  WakeUp(earliest + late)

MisfireNext == MisfireWakeUp

SpecMisfire == MisfireInit /\ [][MisfireNext]_vars

\* C31: a late lesson trigger runs at most once, and only up to 600 seconds
\* after its scheduled time; one wake-up never runs a job several times to
\* make up for fire times it missed.
C31_LateTriggerFiresOnceWithinGrace ==
    \A i \in 1..Len(sched.runs) :
        LET r == sched.runs[i]
        IN  /\ r.at >= r.run_time /\ r.at - r.run_time <= 600
            /\ (r.run_time - FireTimeOfDay(r.job)) % DaySeconds = 0
            /\ \A j \in 1..Len(sched.runs) :
                   (j # i /\ sched.runs[j].job = r.job)
                       => /\ sched.runs[j].run_time # r.run_time
                          /\ sched.runs[j].wake # r.wake

\* C31 witness: a wake-up more than two days late ran the morning job once,
\* five minutes after its last fire time, and gave the earlier one up
C31_Witness ==
    \E i \in 1..Len(sched.runs), k \in 1..Len(sched.missed) :
        /\ sched.runs[i].job = "morning_lesson"
        /\ sched.runs[i].at - sched.runs[i].run_time = 300
        /\ sched.runs[i].run_time > DaySeconds
        /\ sched.missed[k].job = "evening_lesson"
        /\ sched.missed[k].wake = sched.runs[i].wake

(***************************************************************************)
(* Chunks of a long text, as the recipient sees them (SpecDeliver).        *)
(***************************************************************************)
\* the non-empty pieces of the text messages, in send order
RECURSIVE TextPiecesSent(_)
TextPiecesSent(msgs) ==
    IF msgs = <<>> THEN <<>>
    ELSE (IF Head(msgs).kind = "text"
          THEN SelectSeq(Head(msgs).text, LAMBDA x : x.k # "end")
          ELSE <<>>) \o TextPiecesSent(Tail(msgs))

\* the position of a piece in title + content + attribution
PieceRank(x) ==
    CASE x.k = "title" -> 0
      [] x.k = "body" -> x.i
      [] x.k = "rule" -> Len(dlv.body) + 1
      [] x.k = "attr" -> Len(dlv.body) + 2
      [] x.k = "end" -> Len(dlv.body) + 3

\* len() of the paragraph a piece is (a slice of)
ParagraphLen(x) ==
    CASE x.k = "title" -> TitleAffixLen + dlv.title_len
      [] x.k = "body" -> BodyPieces(dlv.body)[x.i].to
      [] x.k = "rule" -> RuleLen
      [] x.k = "attr" -> AttributionAffixLen + Len(dlv.image_data.attribution)
      [] x.k = "end" -> 0

IsSlice(x) == x.from > 0 \/ x.to < ParagraphLen(x)

InTextOrder(pieces) ==
    \A j \in 1..(Len(pieces) - 1) :
        \/ PieceRank(pieces[j]) < PieceRank(pieces[j + 1])
        \/ /\ PieceRank(pieces[j]) = PieceRank(pieces[j + 1])
           /\ pieces[j].to <= pieces[j + 1].from

\* the text after the photo caption, or after the title, went through
\* send_large_text_in_chunks with more than max_chunk_size characters
ChunkedDelivery ==
    /\ dlv.pc = "done"
    /\ Len(dlv.sent.tried) = 1
    /\ dlv.sent.delivered
    /\ IF dlv.image_data = NoImage
       THEN StrLen(message_content(dlv.body, 0)) > max_chunk_size
       ELSE StrLen(message_content(dlv.body, Len(dlv.image_data.attribution)))
                > max_chunk_size

\* C34: the chunks of a text longer than the ceiling have at most
\* max_chunk_size characters each and follow the order of the text; a chunk
\* is made of whole paragraphs, except that a paragraph longer than the
\* ceiling, and only such a paragraph, is cut into slices.
C34_ChunksBoundedOrderedOnParagraphs ==
    ChunkedDelivery =>
        /\ \A m \in 1..Len(dlv.sent.msgs) :
               dlv.sent.msgs[m].kind = "text" =>
                   /\ StrLen(dlv.sent.msgs[m].text) <= max_chunk_size
                   /\ \A x \in Range(dlv.sent.msgs[m].text) :
                          /\ IsSlice(x) => ParagraphLen(x) > max_chunk_size
                          /\ ParagraphLen(x) > max_chunk_size =>
                                 dlv.sent.msgs[m].text = <<x>>
        /\ InTextOrder(TextPiecesSent(dlv.sent.msgs))

\* C34 witness: a paragraph of 4101 characters followed by a short one, sent
\* after a photo: two slices, then a chunk of whole paragraphs
C34_Witness ==
    /\ ChunkedDelivery
    /\ dlv.env.rest
    /\ dlv.image_data # NoImage
    /\ Len(dlv.sent.msgs) >= 4
    /\ \E m \in 1..Len(dlv.sent.msgs) :
           /\ dlv.sent.msgs[m].kind = "text"
           /\ \E x \in Range(dlv.sent.msgs[m].text) : IsSlice(x)
    /\ \E m \in 1..Len(dlv.sent.msgs) :
           /\ dlv.sent.msgs[m].kind = "text"
           /\ Len(dlv.sent.msgs[m].text) >= 2
           /\ \A x \in Range(dlv.sent.msgs[m].text) : ~IsSlice(x)

(***************************************************************************)
(* SpecShared: send_lesson calls one after the other; each gets its lesson *)
(* from generate_lesson_content and checks its fields. Besides the         *)
(* responses of SpecCache the generator writes JSON whose title is null or *)
(* whose question is a number. dlv.validated counts the calls whose lesson *)
(* went through the field check.                                           *)
(***************************************************************************)
NullTitleDoc == Doc("object", VNull, VStr("Body."), VAbsent, VStr("Q?"), VList(OptList(2)),
                    VInt(1), VStr("E"), VList(ExplList(2)))
NumberQuestionDoc == Doc("object", VStr("T"), VStr("Body."), VAbsent, VInt(3),
                         VList(OptList(2)), VInt(1), VStr("E"), VList(ExplList(2)))
SharedResponses == CacheResponses \cup {NullTitleDoc, NumberQuestionDoc}

SharedInit ==
    /\ AcqInit
    /\ img = IdleImg /\ quiz = IdleQuiz /\ sched = IdleSched /\ usr = IdleUsr
    /\ dlv = [pc |-> "idle", validated |-> 0]

SharedCall ==
    /\ calls < MaxCalls
    /\ dlv.validated = calls
    /\ \E theme \in Themes : Call(1, theme)

SharedApiReturn == pc[1] = "api" /\ \E r \in SharedResponses : ApiReturn(1, r)

SharedNext == SharedCall \/ SharedApiReturn \/ Wake(1) \/ ValidateLesson(1)

SpecShared == SharedInit /\ [][SharedNext]_vars

\* C36: a lesson served from the cache is the lesson as the call that
\* constructed it returned it: nothing done with the returned lesson since,
\* the field check of send_lesson included, has changed it.
C36_CachedLessonAsConstructed ==
    \A i, j \in 1..Len(log) :
        (/\ i < j
         /\ log[j].path = "cache"
         /\ log[i].path \in {"strict", "regex", "fallback"}
         /\ ThemeLower(log[i].theme) = ThemeLower(log[j].theme))
            => log[j].lesson = log[i].lesson

(***************************************************************************)
(* SpecConcurrent: two callers of generate_lesson_content on one event     *)
(* loop. A caller runs without interruption from its call to the await of  *)
(* the chat-completion call (line 106), from the response to its return or *)
(* to the sleep between attempts (line 291), and from there on; at these   *)
(* awaits the other caller may run. The clock stands still.                *)
(***************************************************************************)
ConcurrentInit ==
    /\ AcqInit
    /\ disable_openai = FALSE
    /\ img = IdleImg /\ quiz = IdleQuiz /\ sched = IdleSched /\ dlv = IdleDlv /\ usr = IdleUsr

ConcurrentCall ==
    /\ calls < MaxCalls
    /\ \E p \in Procs, theme \in Themes : Call(p, theme)

ConcurrentApiReturn ==
    \E p \in Procs : pc[p] = "api" /\ \E r \in CacheResponses : ApiReturn(p, r)

ConcurrentWake == \E p \in Procs : Wake(p)

ConcurrentNext == ConcurrentCall \/ ConcurrentApiReturn \/ ConcurrentWake

SpecConcurrent == ConcurrentInit /\ [][ConcurrentNext]_vars

Generating(p) == pc[p] \in {"api", "sleep"}

\* C37: two calls for the same uncached subject that run at the same time
\* never both have a generation call under way, and when both have generated
\* and returned, both hold the lesson the cache holds for the subject.
C37_ConcurrentCallsGenerateOnce ==
    \A p, q \in Procs :
        (p # q /\ ThemeLower(ptheme[p]) = ThemeLower(ptheme[q]))
            => /\ ~(Generating(p) /\ Generating(q))
               /\ (/\ pc[p] = "done" /\ pc[q] = "done"
                   /\ ppath[p] # "cache" /\ ppath[q] # "cache")
                      => /\ presult[p] = lesson_cache[ThemeLower(ptheme[p])].lesson
                         /\ presult[q] = lesson_cache[ThemeLower(ptheme[q])].lesson

\* the photo messages the recipient got
PhotosSent(msgs) == {m \in 1..Len(msgs) : msgs[m].kind = "photo"}

\* C38: one send_lesson call puts at most one photo message in front of the
\* recipient, whichever of the later sends fail.
C38_AtMostOnePhoto ==
    dlv.pc = "done" => Cardinality(PhotosSent(dlv.sent.msgs)) <= 1

(***************************************************************************)
(* SpecOrder: one send_lesson call in two steps, the lesson and then the   *)
(* quiz, over the lessons, images and transport environments of            *)
(* SpecDeliver. dlv.sent.msgs and dlv.sent.quiz are what the recipient got *)
(* so far.                                                                 *)
(***************************************************************************)
OrderSendContent ==
    /\ dlv.pc = "idle"
    /\ \E title_len \in TitleLens, body \in Bodies, outcome \in ImageOutcomes,
          image \in LessonImages, e \in DeliverEnvs :
           /\ outcome = "returned" \/ image.kind = "url"
           /\ SendLessonContent(title_len, body, outcome, image, e)

OrderNext == OrderSendContent \/ SendLessonQuiz

SpecOrder == DeliverInit /\ [][OrderNext]_vars

\* C39: the photo (or the title) comes first, the texts follow in the order
\* of the lesson text, the quiz comes only when the lesson part of the call
\* is over, and a session is stored only for a poll that was sent.
C39_LessonThenQuizThenSession ==
    /\ \A m, n \in 1..Len(dlv.sent.msgs) :
           (m < n /\ dlv.sent.msgs[m].kind = "text") => dlv.sent.msgs[n].kind = "text"
    /\ dlv.pc # "idle" => InTextOrder(TextPiecesSent(dlv.sent.msgs))
    /\ dlv.sent.quiz # <<>> => dlv.pc = "done" /\ dlv.sent.delivered
    /\ \A poll \in PollIds :
           quiz.active_quizzes[poll].has
               => dlv.pc = "done" /\ dlv.sent.quiz = <<"poll">>

\* C39 witness: a photo with the title, three chunks, the poll, its session
C39_Witness ==
    /\ dlv.pc = "done"
    /\ Len(dlv.sent.msgs) >= 4
    /\ dlv.sent.msgs[1].kind = "photo"
    /\ \A m \in 2..Len(dlv.sent.msgs) : dlv.sent.msgs[m].kind = "text"
    /\ dlv.sent.quiz = <<"poll">>
    /\ \E poll \in PollIds : quiz.active_quizzes[poll].has

\* C40: no photo goes out with a caption of more than 1024 characters,
\* whatever the title, the body and the attribution.
C40_CaptionWithinLimit ==
    dlv.pc = "done" =>
        \A m \in PhotosSent(dlv.sent.msgs) :
            StrLen(dlv.sent.msgs[m].text) <= CaptionLimit

====
